---------------------------- MODULE Spec2Model ----------------------------
(***************************************************************************)
(* A model of the KernelForge core (src-tauri/src/core): the kernel        *)
(* configuration builder (config.rs) with its category removal, the        *)
(* bloat removal engine (bloat_removal.rs), the version registry           *)
(* (version.rs), the patch catalog (patches.rs), the build plan and its    *)
(* builder (build_plan.rs), the toolchain detector (toolchain.rs) and the  *)
(* cached catalog of kernel.org versions (version_catalog.rs).             *)
(*                                                                         *)
(* Rust strings that the code inspects byte by byte (sorted, lower-cased,  *)
(* trimmed, compared ignoring case, concatenated into the emitted text)    *)
(* are sequences of one-character strings; Code gives the byte of each     *)
(* character.  Strings that the code only stores are TLA+ strings.         *)
(* Option<T> is <<"None">> or <<"Some", x>>.                               *)
(***************************************************************************)
EXTENDS Integers, Sequences, FiniteSets, TLC

VARIABLES
    config1,      \* config.rs: a KernelConfig (its HashMap and the map's hasher seed)
    config2,      \* config.rs: a second KernelConfig, built by its own calls
    output1,      \* Option<String>: the text returned by config1.emit()
    output2,      \* Option<String>: the text returned by config2.emit()
    history1,     \* history of config1: key -> the last set/unset call made on it
    input,        \* version.rs: the &str handed to KernelVersion::from_string
    parsed,       \* version.rs: the Option<KernelVersion> from_string returned for input
    version,      \* patches.rs: the KernelVersion of the current query
    patch_name,   \* patches.rs: the &str patch name of the current query
    call,         \* patches.rs / build_plan.rs: the last call made and what it returned
    categories,   \* config.rs: Some(the &[&str] of the apply_bloat_removal just made on config1)
    before,       \* config.rs: Some(config1 as it was when that apply_bloat_removal was called)
    plan,         \* build_plan.rs: Option<BuildPlan>, the plan the caller holds
    builder,      \* build_plan.rs: Option<BuildPlanBuilder>, the builder the caller holds
    ops,          \* build_plan.rs: the names of the calls that made plan or builder what it is
    path,         \* toolchain.rs: what running clang, ld.lld and gcc gives on this system
    toolchain_plan, \* toolchain.rs: the last call on BuildPlan or the detector and what it returned
    clock,        \* version_catalog.rs: what SystemTime::now() gives, in units of 12 hours
    kernel_org,   \* version_catalog.rs: what a request to kernel.org gives
    cache_dir,    \* version_catalog.rs: the state of the cache directory
    cache_file,   \* version_catalog.rs: the state of versions.json in it
    catalog_call, \* version_catalog.rs: the last list_available_versions call and what it did
    cache_writer, \* version_catalog.rs: Some(the call that wrote the cache entry cache_file holds)
    validated,    \* build_plan.rs: Some(what plan.validate() returned for the plan as it is)
    plan_output   \* build_plan.rs: the last output taken from plan and what it was

vars == <<config1, config2, output1, output2, history1,
          input, parsed, version, patch_name, call,
          categories, before, plan, builder, ops, path, toolchain_plan,
          clock, kernel_org, cache_dir, cache_file, catalog_call, cache_writer,
          validated, plan_output>>

config_vars  == <<config1, config2, output1, output2, history1>>
version_vars == <<input, parsed>>
patch_vars   == <<version, patch_name, call>>
bloat_vars   == <<categories, before>>
plan_vars    == <<plan, builder, ops>>
toolchain_vars == <<path, toolchain_plan>>
catalog_vars == <<clock, kernel_org, cache_dir, cache_file, catalog_call, cache_writer>>
report_vars  == <<validated, plan_output>>

-----------------------------------------------------------------------------
(* Bounds of the model. *)

\* The number of distinct hasher seeds a HashMap can be created with.
NumSeeds == 2

-----------------------------------------------------------------------------
(* Option<T> *)

None == <<"None">>
Some(x) == <<"Some", x>>
is_some(o) == o[1] = "Some"
is_none(o) == o[1] = "None"
unwrap(o) == o[2]

-----------------------------------------------------------------------------
(* Bytes of characters and the orderings and conversions of str/String. *)

\* The printable ASCII characters, in byte order from 32 (space) to 126 (~);
\* byte 96, which no string of the program holds, is written <grave>.
Ascii == <<" ","!","\"","#","$","%","&","'","(",")","*","+",",","-",".","/","0","1","2","3","4","5","6","7","8","9",":",";","<","=",">","?","@","A","B","C","D","E","F","G","H","I","J","K","L","M","N","O","P","Q","R","S","T","U","V","W","X","Y","Z","[","\\","]","^","_","<grave>","a","b","c","d","e","f","g","h","i","j","k","l","m","n","o","p","q","r","s","t","u","v","w","x","y","z","{","|","}","~">>

\* The byte of a character.
Code ==
    [c \in {Ascii[i] : i \in DOMAIN Ascii} \cup {"\n", "\t"} |->
        IF c = "\n" THEN 10
        ELSE IF c = "\t" THEN 9
        ELSE 31 + (CHOOSE i \in DOMAIN Ascii : Ascii[i] = c)]

\* The character of a printable byte.
Chr(b) == Ascii[b - 31]

\* char::is_whitespace, on the characters of the model.
is_whitespace(c) == c \in {" ", "\t", "\n"}

\* char::to_lowercase / u8::to_ascii_lowercase on an ASCII character.
to_ascii_lowercase(c) ==
    IF Code[c] >= 65 /\ Code[c] <= 90 THEN Chr(Code[c] + 32) ELSE c

\* char::to_uppercase / u8::to_ascii_uppercase on an ASCII character.
to_ascii_uppercase(c) ==
    IF Code[c] >= 97 /\ Code[c] <= 122 THEN Chr(Code[c] - 32) ELSE c

\* str::to_lowercase
to_lowercase(s) == [i \in 1..Len(s) |-> to_ascii_lowercase(s[i])]

\* str::trim: the string without its leading and trailing whitespace.
trim(s) ==
    LET solid == {i \in 1..Len(s) : ~is_whitespace(s[i])}
    IN  IF solid = {} THEN <<>>
        ELSE LET first == CHOOSE i \in solid : \A j \in solid : i <= j
                 last  == CHOOSE i \in solid : \A j \in solid : j <= i
             IN  SubSeq(s, first, last)

\* str::eq_ignore_ascii_case
eq_ignore_ascii_case(a, b) ==
    /\ Len(a) = Len(b)
    /\ \A i \in 1..Len(a) : to_ascii_lowercase(a[i]) = to_ascii_lowercase(b[i])

\* str::contains: pat occurs in s as a contiguous substring.
contains(s, pat) ==
    \E i \in 0..(Len(s) - Len(pat)) : SubSeq(s, i + 1, i + Len(pat)) = pat

\* The Ord of String / str: a < b in bytewise lexicographic order.
StrLess(a, b) ==
    LET n == IF Len(a) < Len(b) THEN Len(a) ELSE Len(b)
        d == {i \in 1..n : a[i] # b[i]}
    IN  IF d = {} THEN Len(a) < Len(b)
        ELSE LET i == CHOOSE i \in d : \A j \in d : i <= j
             IN  Code[a[i]] < Code[b[i]]

\* Vec::sort on strings: a stable ascending sort (insertion of the last
\* element into the sorted rest).
RECURSIVE sort(_)
sort(v) ==
    IF Len(v) <= 1 THEN v
    ELSE LET rest == sort(SubSeq(v, 1, Len(v) - 1))
             x    == v[Len(v)]
             p    == Cardinality({i \in 1..Len(rest) : ~StrLess(x, rest[i])})
         IN  SubSeq(rest, 1, p) \o <<x>> \o SubSeq(rest, p + 1, Len(rest))

\* [String]::join
RECURSIVE join(_, _)
join(lines, sep) ==
    IF Len(lines) = 0 THEN <<>>
    ELSE IF Len(lines) = 1 THEN lines[1]
    ELSE lines[1] \o sep \o join(Tail(lines), sep)

-----------------------------------------------------------------------------
(* config.rs: KernelConfig *)

\* The string literals of config.rs, as bytes.
ConfigLit ==
    ("CONFIG_X86_64" :> <<"C","O","N","F","I","G","_","X","8","6","_","6","4">>) @@
    ("CONFIG_64BIT" :> <<"C","O","N","F","I","G","_","6","4","B","I","T">>) @@
    ("CONFIG_ARM" :> <<"C","O","N","F","I","G","_","A","R","M">>) @@
    ("CONFIG_ARM64" :> <<"C","O","N","F","I","G","_","A","R","M","6","4">>) @@
    ("CONFIG_MIPS" :> <<"C","O","N","F","I","G","_","M","I","P","S">>) @@
    ("CONFIG_POWERPC" :> <<"C","O","N","F","I","G","_","P","O","W","E","R","P","C">>) @@
    ("CONFIG_PPC" :> <<"C","O","N","F","I","G","_","P","P","C">>) @@
    ("CONFIG_PPC64" :> <<"C","O","N","F","I","G","_","P","P","C","6","4">>) @@
    ("CONFIG_RISCV" :> <<"C","O","N","F","I","G","_","R","I","S","C","V">>) @@
    ("CONFIG_S390" :> <<"C","O","N","F","I","G","_","S","3","9","0">>) @@
    ("CONFIG_IA64" :> <<"C","O","N","F","I","G","_","I","A","6","4">>) @@
    ("CONFIG_ALPHA" :> <<"C","O","N","F","I","G","_","A","L","P","H","A">>) @@
    ("CONFIG_M68K" :> <<"C","O","N","F","I","G","_","M","6","8","K">>) @@
    ("CONFIG_MICROBLAZE" :> <<"C","O","N","F","I","G","_","M","I","C","R","O","B","L","A","Z","E">>) @@
    ("CONFIG_NDS32" :> <<"C","O","N","F","I","G","_","N","D","S","3","2">>) @@
    ("CONFIG_ARC" :> <<"C","O","N","F","I","G","_","A","R","C">>) @@
    ("CONFIG_SH" :> <<"C","O","N","F","I","G","_","S","H">>) @@
    ("CONFIG_SPARC" :> <<"C","O","N","F","I","G","_","S","P","A","R","C">>) @@
    ("CONFIG_SPARC64" :> <<"C","O","N","F","I","G","_","S","P","A","R","C","6","4">>) @@
    ("CONFIG_HEXAGON" :> <<"C","O","N","F","I","G","_","H","E","X","A","G","O","N">>) @@
    ("CONFIG_ISA" :> <<"C","O","N","F","I","G","_","I","S","A">>) @@
    ("CONFIG_EISA" :> <<"C","O","N","F","I","G","_","E","I","S","A">>) @@
    ("CONFIG_MCA" :> <<"C","O","N","F","I","G","_","M","C","A">>) @@
    ("CONFIG_PARALLEL_PORT" :> <<"C","O","N","F","I","G","_","P","A","R","A","L","L","E","L","_","P","O","R","T">>) @@
    ("CONFIG_FLOPPY" :> <<"C","O","N","F","I","G","_","F","L","O","P","P","Y">>) @@
    ("CONFIG_IDE" :> <<"C","O","N","F","I","G","_","I","D","E">>) @@
    ("CONFIG_HZ" :> <<"C","O","N","F","I","G","_","H","Z">>) @@
    ("y" :> <<"y">>) @@
    ("1000" :> <<"1","0","0","0">>) @@
    ("# " :> <<"#"," ">>) @@
    (" is not set" :> <<" ","i","s"," ","n","o","t"," ","s","e","t">>) @@
    ("=" :> <<"=">>) @@
    ("\n" :> <<"\n">>)

\* The keys and values the set/unset calls of the model are made with
\* (those of test_mixed_set_unset): a key the baseline sets, a key the
\* baseline unsets and a key the baseline leaves out.
CallKeys == {ConfigLit["CONFIG_X86_64"], ConfigLit["CONFIG_ARM"], ConfigLit["CONFIG_HZ"]}

\* The keys the calls on the two configurations made by new are made with:
\* one of them is a prefix of another.
NewKeys == {ConfigLit["CONFIG_X86_64"], ConfigLit["CONFIG_ARM"], ConfigLit["CONFIG_ARM64"]}
CallValues == {ConfigLit["y"], ConfigLit["1000"]}

\* HashMap::new(): no entries.
EmptyMap == [k \in {} |-> None]

\* KernelConfig::new, in a process whose next hasher seed is seed.
new(seed) == [seed |-> seed, config_map |-> EmptyMap]

\* HashMap::insert: insert or replace.
insert(map, k, v) == [x \in DOMAIN map \cup {k} |-> IF x = k THEN v ELSE map[x]]

\* A set that keeps the value of a key the map already holds.
set_keeps_existing(self, name, value) ==
    IF name \in DOMAIN self.config_map THEN self
    ELSE [self EXCEPT !.config_map = insert(self.config_map, name, Some(value))]

\* KernelConfig::set
set(self, name, value) ==
    [self EXCEPT !.config_map = insert(self.config_map, name, Some(value))]

\* An unset that removes the key instead of recording it as not set.
unset_removes(self, name) ==
    [self EXCEPT !.config_map =
        [x \in DOMAIN self.config_map \ {name} |-> self.config_map[x]]]

\* KernelConfig::unset
unset(self, name) ==
    [self EXCEPT !.config_map = insert(self.config_map, name, None)]

\* The bucket a key hashes to under a seed.  HashMap iterates bucket by
\* bucket, so the iteration order is a function of the seed and the keys
\* and has nothing to do with the order of the keys as strings.
bucket(seed, k) ==
    LET last == IF Len(k) > 0 THEN Code[k[Len(k)]] ELSE 0
        prev == IF Len(k) > 1 THEN Code[k[Len(k) - 1]] ELSE 0
    IN  ((last + 3 * Len(k)) * (2 * seed + 1) + 5 * seed * prev) % 13

\* k is iterated before j.
iter_before(seed, k, j) ==
    \/ bucket(seed, k) < bucket(seed, j)
    \/ bucket(seed, k) = bucket(seed, j) /\ (k = j \/ StrLess(j, k))

RECURSIVE iter_order(_, _)
iter_order(seed, S) ==
    IF S = {} THEN <<>>
    ELSE LET k == CHOOSE k \in S : \A j \in S : iter_before(seed, k, j)
         IN  <<k>> \o iter_order(seed, S \ {k})

\* HashMap::keys: the keys in the map's iteration order.
keys(self) == iter_order(self.seed, DOMAIN self.config_map)

\* One line of the emitted text.
emit_line(self, key) ==
    LET value_opt == self.config_map[key]
    IN  IF is_some(value_opt)
        THEN key \o ConfigLit["="] \o unwrap(value_opt)
        ELSE ConfigLit["# "] \o key \o ConfigLit[" is not set"]

\* An emit that does not sort the keys.
emit_unsorted(self) ==
    LET unsorted == keys(self)
        lines    == [i \in 1..Len(unsorted) |-> emit_line(self, unsorted[i])]
    IN  join(lines, ConfigLit["\n"]) \o ConfigLit["\n"]

\* An emit that joins the lines and adds no final newline.
emit_joined_only(self) ==
    LET sorted == sort(keys(self))
        lines  == [i \in 1..Len(sorted) |-> emit_line(self, sorted[i])]
    IN  join(lines, ConfigLit["\n"])

\* KernelConfig::emit
emit(self) ==
    LET sorted == sort(keys(self))
        lines  == [i \in 1..Len(sorted) |-> emit_line(self, sorted[i])]
    IN  join(lines, ConfigLit["\n"]) \o ConfigLit["\n"]

\* The calls x86_64_baseline makes, in the order it makes them.
x86_64_baseline_calls ==
    <<  <<"set", ConfigLit["CONFIG_X86_64"], ConfigLit["y"]>>,
        <<"set", ConfigLit["CONFIG_64BIT"], ConfigLit["y"]>>,
        <<"unset", ConfigLit["CONFIG_ARM"]>>,
        <<"unset", ConfigLit["CONFIG_ARM64"]>>,
        <<"unset", ConfigLit["CONFIG_MIPS"]>>,
        <<"unset", ConfigLit["CONFIG_POWERPC"]>>,
        <<"unset", ConfigLit["CONFIG_PPC"]>>,
        <<"unset", ConfigLit["CONFIG_PPC64"]>>,
        <<"unset", ConfigLit["CONFIG_RISCV"]>>,
        <<"unset", ConfigLit["CONFIG_S390"]>>,
        <<"unset", ConfigLit["CONFIG_IA64"]>>,
        <<"unset", ConfigLit["CONFIG_ALPHA"]>>,
        <<"unset", ConfigLit["CONFIG_M68K"]>>,
        <<"unset", ConfigLit["CONFIG_MICROBLAZE"]>>,
        <<"unset", ConfigLit["CONFIG_NDS32"]>>,
        <<"unset", ConfigLit["CONFIG_ARC"]>>,
        <<"unset", ConfigLit["CONFIG_SH"]>>,
        <<"unset", ConfigLit["CONFIG_SPARC"]>>,
        <<"unset", ConfigLit["CONFIG_SPARC64"]>>,
        <<"unset", ConfigLit["CONFIG_HEXAGON"]>>,
        <<"unset", ConfigLit["CONFIG_ISA"]>>,
        <<"unset", ConfigLit["CONFIG_EISA"]>>,
        <<"unset", ConfigLit["CONFIG_MCA"]>>,
        <<"unset", ConfigLit["CONFIG_PARALLEL_PORT"]>>,
        <<"unset", ConfigLit["CONFIG_FLOPPY"]>>,
        <<"unset", ConfigLit["CONFIG_IDE"]>>  >>

\* A configuration after a sequence of set/unset calls.
RECURSIVE apply_calls(_, _)
apply_calls(self, calls) ==
    IF Len(calls) = 0 THEN self
    ELSE LET c == calls[1]
         IN  apply_calls(IF c[1] = "set" THEN set(self, c[2], c[3]) ELSE unset(self, c[2]),
                         Tail(calls))

\* KernelConfig::x86_64_baseline
x86_64_baseline(seed) == apply_calls(new(seed), x86_64_baseline_calls)

-----------------------------------------------------------------------------
(* The history of config1: which constructor made it, and the last call   *)
(* made on each key, by the constructor or by the caller.                  *)

\* The last call on each key of a sequence of calls, on top of last.
RECURSIVE last_calls(_, _)
last_calls(last, calls) ==
    IF Len(calls) = 0 THEN last
    ELSE LET c == calls[1]
         IN  last_calls([k \in DOMAIN last \cup {c[2]} |->
                            IF k = c[2] THEN (IF c[1] = "set" THEN <<"set", c[3]>> ELSE <<"unset">>)
                            ELSE last[k]],
                        Tail(calls))

history_new == [ctor |-> "new", last |-> [k \in {} |-> <<"unset">>], touched |-> {}]

history_x86_64_baseline ==
    [ctor |-> "x86_64_baseline",
     last |-> last_calls([k \in {} |-> <<"unset">>], x86_64_baseline_calls),
     touched |-> {}]

record_call(h, c) ==
    [h EXCEPT !.last = last_calls(h.last, <<c>>), !.touched = h.touched \cup {c[2]}]

-----------------------------------------------------------------------------
(* The values the variables of the other components rest at. *)

IdleCall == [fn |-> "none", ret |-> None]

ConfigIdle ==
    /\ config1 = new(0)
    /\ config2 = new(0)
    /\ output1 = None
    /\ output2 = None
    /\ history1 = history_new

VersionIdle ==
    /\ input = <<>>
    /\ parsed = None

PatchIdle ==
    /\ version = "none"
    /\ patch_name = <<>>
    /\ call = IdleCall

BloatIdle ==
    /\ categories = None
    /\ before = None

PlanIdle ==
    /\ plan = None
    /\ builder = None
    /\ ops = {}

ToolchainIdle ==
    /\ path = [clang |-> None, lld |-> None, gcc |-> None]
    /\ toolchain_plan = IdleCall

CatalogIdle ==
    /\ clock = 0
    /\ kernel_org = <<"Failed to fetch from kernel.org">>
    /\ cache_dir = "ok"
    /\ cache_file = <<"missing">>
    /\ catalog_call = IdleCall
    /\ cache_writer = None

ReportIdle ==
    /\ validated = None
    /\ plan_output = IdleCall

-----------------------------------------------------------------------------
(* Specification Spec: two configurations are built from KernelConfig::new *)
(* by set and unset calls in any order and then emitted, as in             *)
(* test_deterministic_output.  The two maps are created one after the      *)
(* other in the same thread, so their hasher seeds differ.                 *)

Init ==
    /\ \E seed \in 0..(NumSeeds - 1) :
          /\ config1 = new(seed)
          /\ config2 = new((seed + 1) % NumSeeds)
    /\ output1 = None
    /\ output2 = None
    /\ history1 = history_new
    /\ VersionIdle
    /\ PatchIdle
    /\ BloatIdle
    /\ PlanIdle
    /\ ToolchainIdle
    /\ CatalogIdle
    /\ ReportIdle

\* config1.set(name, value)
Set1(name, value) ==
    /\ output1 = None
    /\ config1' = set(config1, name, value)
    /\ history1' = record_call(history1, <<"set", name, value>>)
    /\ UNCHANGED <<config2, output1, output2, version_vars, patch_vars,
                 bloat_vars, plan_vars, toolchain_vars, catalog_vars, report_vars>>

\* config1.unset(name)
Unset1(name) ==
    /\ output1 = None
    /\ config1' = unset(config1, name)
    /\ history1' = record_call(history1, <<"unset", name>>)
    /\ UNCHANGED <<config2, output1, output2, version_vars, patch_vars,
                 bloat_vars, plan_vars, toolchain_vars, catalog_vars, report_vars>>

\* let output1 = config1.emit()
Emit1 ==
    /\ output1 = None
    /\ output1' = Some(emit(config1))
    /\ UNCHANGED <<config1, config2, output2, history1, version_vars, patch_vars,
                 bloat_vars, plan_vars, toolchain_vars, catalog_vars, report_vars>>

\* config2.set(name, value)
Set2(name, value) ==
    /\ output2 = None
    /\ config2' = set(config2, name, value)
    /\ UNCHANGED <<config1, output1, output2, history1, version_vars, patch_vars,
                 bloat_vars, plan_vars, toolchain_vars, catalog_vars, report_vars>>

\* config2.unset(name)
Unset2(name) ==
    /\ output2 = None
    /\ config2' = unset(config2, name)
    /\ UNCHANGED <<config1, output1, output2, history1, version_vars, patch_vars,
                 bloat_vars, plan_vars, toolchain_vars, catalog_vars, report_vars>>

\* let output2 = config2.emit()
Emit2 ==
    /\ output2 = None
    /\ output2' = Some(emit(config2))
    /\ UNCHANGED <<config1, config2, output1, history1, version_vars, patch_vars,
                 bloat_vars, plan_vars, toolchain_vars, catalog_vars, report_vars>>

Next ==
    \/ \E name \in NewKeys, value \in CallValues : Set1(name, value)
    \/ \E name \in NewKeys : Unset1(name)
    \/ Emit1
    \/ \E name \in NewKeys, value \in CallValues : Set2(name, value)
    \/ \E name \in NewKeys : Unset2(name)
    \/ Emit2

Spec == Init /\ [][Next]_vars

-----------------------------------------------------------------------------
(* Specification SpecBaseline: a configuration made by x86_64_baseline,    *)
(* then changed by set and unset calls and emitted.                        *)

InitBaseline ==
    /\ \E seed \in 0..(NumSeeds - 1) : config1 = x86_64_baseline(seed)
    /\ config2 = new(0)
    /\ output1 = None
    /\ output2 = None
    /\ history1 = history_x86_64_baseline
    /\ VersionIdle
    /\ PatchIdle
    /\ BloatIdle
    /\ PlanIdle
    /\ ToolchainIdle
    /\ CatalogIdle
    /\ ReportIdle

NextBaseline ==
    \/ \E name \in CallKeys, value \in CallValues : Set1(name, value)
    \/ \E name \in CallKeys : Unset1(name)
    \/ Emit1

SpecBaseline == InitBaseline /\ [][NextBaseline]_vars

-----------------------------------------------------------------------------
(* Reading an emitted text back. *)

\* The lines of a text that end in a newline, from position from on.
RECURSIVE lines_from(_, _)
lines_from(t, from) ==
    LET nl == {i \in from..Len(t) : t[i] = "\n"}
    IN  IF nl = {} THEN <<>>
        ELSE LET p == CHOOSE i \in nl : \A j \in nl : i <= j
             IN  <<SubSeq(t, from, p - 1)>> \o lines_from(t, p + 1)

TerminatedLines(t) == lines_from(t, 1)

\* The line a .config file holds for a key in a state.
ExpectedLine(k, state) ==
    IF state[1] = "Some" THEN k \o <<"=">> \o state[2]
    ELSE <<"#", " ">> \o k \o <<" ", "i", "s", " ", "n", "o", "t", " ", "s", "e", "t">>

\* A line is about key k: it sets k or says that k is not set.
LineAbout(l, k) ==
    \/ l = ExpectedLine(k, None)
    \/ Len(l) > Len(k) /\ SubSeq(l, 1, Len(k) + 1) = k \o <<"=">>

\* text is the .config text of the table map: every line ends in a
\* newline, there is one line per key and no other line (so no blank
\* line), each line is the one of its key, and the keys ascend.
EmitFormat(map, text) ==
    LET ls == TerminatedLines(text)
        key_of(l) == CHOOSE k \in DOMAIN map : l = ExpectedLine(k, map[k])
    IN  /\ Len(text) > 0 => text[Len(text)] = "\n"
        /\ Len(ls) = Cardinality(DOMAIN map)
        /\ \A i \in 1..Len(ls) : \E k \in DOMAIN map : ls[i] = ExpectedLine(k, map[k])
        /\ \A k \in DOMAIN map : \E i \in 1..Len(ls) : ls[i] = ExpectedLine(k, map[k])
        /\ \A i \in 1..(Len(ls) - 1) : StrLess(key_of(ls[i]), key_of(ls[i + 1]))

-----------------------------------------------------------------------------
(* Claims on KernelConfig. *)

\* C1: two configurations whose set/unset calls leave the same final table
\* emit byte-identical text, whatever the order and repetition of the calls
\* and whatever order the two maps iterate their keys in.
C1_EmitOrderIndependent ==
    (is_some(output1) /\ is_some(output2) /\ config1.config_map = config2.config_map)
        => output1 = output2

\* Both configurations hold the same three keys, one of them not set, their
\* maps iterate the keys in different orders, and both were emitted.
C1_Witness ==
    /\ is_some(output1)
    /\ is_some(output2)
    /\ config1.config_map = config2.config_map
    /\ DOMAIN config1.config_map = NewKeys
    /\ \E k \in NewKeys : config1.config_map[k] = None
    /\ keys(config1) # keys(config2)

\* C2 as stated: for every table, the empty one included, the emitted text
\* is one newline-terminated line per key, in ascending key order, KEY=VALUE
\* for a set key and "# KEY is not set" for an unset key, and nothing else.
C2_EmitFormatEveryTable ==
    is_some(output1) => EmitFormat(config1.config_map, unwrap(output1))

\* C2 as amended: the format holds for every table that has a key, and the
\* text emitted for the empty table is a single newline.
C2_EmitFormat ==
    is_some(output1) =>
        IF DOMAIN config1.config_map = {}
        THEN unwrap(output1) = <<"\n">>
        ELSE EmitFormat(config1.config_map, unwrap(output1))

\* A table of three keys, set and unset ones, was emitted.
C2_Witness ==
    /\ is_some(output1)
    /\ DOMAIN config1.config_map = NewKeys
    /\ \E k \in NewKeys : config1.config_map[k] = None
    /\ \E k \in NewKeys : config1.config_map[k] = Some(<<"1", "0", "0", "0">>)
    /\ sort(keys(config1)) # keys(config1)

\* The keys of the model.
AllKeys == CallKeys \cup NewKeys \cup {x86_64_baseline_calls[i][2] : i \in DOMAIN x86_64_baseline_calls}

\* C3: after any sequence of set/unset calls the table holds exactly the
\* keys that were written, each in the state its last call left it in, and
\* the emitted text has exactly one line for each such key, "KEY=VALUE" if
\* the last call was a set and "# KEY is not set" if it was an unset, and
\* no line about a key that was never written.
C3_LastWriteWins ==
    LET map  == config1.config_map
        last == history1.last
    IN  /\ DOMAIN map = DOMAIN last
        /\ \A k \in DOMAIN last :
              map[k] = (IF last[k][1] = "set" THEN Some(last[k][2]) ELSE None)
        /\ is_some(output1) =>
              LET ls == TerminatedLines(unwrap(output1))
              IN  \A k \in AllKeys :
                     LET about == {i \in 1..Len(ls) : LineAbout(ls[i], k)}
                     IN  IF k \in DOMAIN last
                         THEN /\ Cardinality(about) = 1
                              /\ \A i \in about :
                                    ls[i] = (IF last[k][1] = "set"
                                             THEN k \o <<"=">> \o last[k][2]
                                             ELSE ExpectedLine(k, None))
                         ELSE about = {}

\* The caller unset CONFIG_X86_64, which the constructor had set, and set
\* CONFIG_ARM, which the constructor had unset; CONFIG_HZ was never written;
\* the configuration was emitted.
C3_Witness ==
    /\ is_some(output1)
    /\ history1.ctor = "x86_64_baseline"
    /\ ConfigLit["CONFIG_X86_64"] \in history1.touched
    /\ history1.last[ConfigLit["CONFIG_X86_64"]] = <<"unset">>
    /\ ConfigLit["CONFIG_ARM"] \in history1.touched
    /\ history1.last[ConfigLit["CONFIG_ARM"]][1] = "set"
    /\ ConfigLit["CONFIG_HZ"] \notin DOMAIN history1.last

\* The architecture keys and the legacy hardware keys C10 names.
C10_OtherArchitectures ==
    {ConfigLit["CONFIG_ARM"], ConfigLit["CONFIG_ARM64"], ConfigLit["CONFIG_MIPS"],
     ConfigLit["CONFIG_POWERPC"], ConfigLit["CONFIG_RISCV"], ConfigLit["CONFIG_S390"],
     ConfigLit["CONFIG_SPARC"]}
C10_LegacyHardware ==
    {ConfigLit["CONFIG_ISA"], ConfigLit["CONFIG_EISA"], ConfigLit["CONFIG_MCA"],
     ConfigLit["CONFIG_PARALLEL_PORT"], ConfigLit["CONFIG_FLOPPY"], ConfigLit["CONFIG_IDE"]}

\* C10: the configuration x86_64_baseline returns has CONFIG_X86_64 set to
\* y, enables nothing but CONFIG_X86_64 and CONFIG_64BIT, has every other
\* architecture key and every legacy hardware key explicitly not set, and
\* its emitted text has the line CONFIG_X86_64=y and a "# KEY is not set"
\* line for each of those keys.
C10_Baseline ==
    (history1.ctor = "x86_64_baseline" /\ history1.touched = {}) =>
        LET map == config1.config_map
        IN  /\ ConfigLit["CONFIG_X86_64"] \in DOMAIN map
            /\ map[ConfigLit["CONFIG_X86_64"]] = Some(<<"y">>)
            /\ {k \in DOMAIN map : map[k] # None}
                  = {ConfigLit["CONFIG_X86_64"], ConfigLit["CONFIG_64BIT"]}
            /\ \A k \in C10_OtherArchitectures \cup C10_LegacyHardware :
                  k \in DOMAIN map /\ map[k] = None
            /\ is_some(output1) =>
                  LET ls == TerminatedLines(unwrap(output1))
                      has(l) == \E i \in 1..Len(ls) : ls[i] = l
                  IN  /\ has(ConfigLit["CONFIG_X86_64"] \o <<"=", "y">>)
                      /\ \A k \in C10_OtherArchitectures \cup C10_LegacyHardware :
                            has(ExpectedLine(k, None))

\* The baseline was emitted as the constructor returned it.
C10_Witness ==
    /\ history1.ctor = "x86_64_baseline"
    /\ history1.touched = {}
    /\ is_some(output1)
    /\ Len(TerminatedLines(unwrap(output1))) = Len(x86_64_baseline_calls)

-----------------------------------------------------------------------------
(* version.rs: KernelVersion *)

\* The string literals of version.rs, as bytes.
VersionLit ==
    ("6.6" :> <<"6",".","6">>) @@
    ("6.6-lts" :> <<"6",".","6","-","l","t","s">>) @@
    ("6.6_lts" :> <<"6",".","6","_","l","t","s">>) @@
    ("v6.6" :> <<"v","6",".","6">>) @@
    ("v6_6_lts" :> <<"v","6","_","6","_","l","t","s">>) @@
    ("6.17" :> <<"6",".","1","7">>) @@
    ("v6.17" :> <<"v","6",".","1","7">>) @@
    ("v6_17" :> <<"v","6","_","1","7">>) @@
    ("6.6-LTS" :> <<"6",".","6","-","L","T","S">>) @@
    ("invalid" :> <<"i","n","v","a","l","i","d">>) @@
    ("5.10" :> <<"5",".","1","0">>) @@
    ("7.0" :> <<"7",".","0">>) @@
    ("V6_6_LTS" :> <<"V","6","_","6","_","L","T","S">>) @@
    ("6.6.1" :> <<"6",".","6",".","1">>) @@
    ("6.170" :> <<"6",".","1","7","0">>)

\* enum KernelVersion
KernelVersion == {"V6_6_Lts", "V6_17"}

\* KernelVersion::default_target
default_target == "V6_6_Lts"

\* A from_string that does not lower-case its input.
from_string_case_sensitive(s) ==
    LET normalized == trim(s)
    IN  IF normalized \in {VersionLit["6.6"], VersionLit["6.6-lts"], VersionLit["6.6_lts"],
                           VersionLit["v6.6"], VersionLit["v6_6_lts"]}
        THEN Some("V6_6_Lts")
        ELSE IF normalized \in {VersionLit["6.17"], VersionLit["v6.17"], VersionLit["v6_17"]}
        THEN Some("V6_17")
        ELSE None

\* A from_string that does not trim its input.
from_string_untrimmed(s) ==
    LET normalized == to_lowercase(s)
    IN  IF normalized \in {VersionLit["6.6"], VersionLit["6.6-lts"], VersionLit["6.6_lts"],
                           VersionLit["v6.6"], VersionLit["v6_6_lts"]}
        THEN Some("V6_6_Lts")
        ELSE IF normalized \in {VersionLit["6.17"], VersionLit["v6.17"], VersionLit["v6_17"]}
        THEN Some("V6_17")
        ELSE None

\* A from_string that falls back to the default target.
from_string_defaulting(s) ==
    LET normalized == trim(to_lowercase(s))
    IN  IF normalized \in {VersionLit["6.6"], VersionLit["6.6-lts"], VersionLit["6.6_lts"],
                           VersionLit["v6.6"], VersionLit["v6_6_lts"]}
        THEN Some("V6_6_Lts")
        ELSE IF normalized \in {VersionLit["6.17"], VersionLit["v6.17"], VersionLit["v6_17"]}
        THEN Some("V6_17")
        ELSE Some(default_target)

\* KernelVersion::from_string
from_string(s) ==
    LET normalized == trim(to_lowercase(s))
    IN  IF normalized \in {VersionLit["6.6"], VersionLit["6.6-lts"], VersionLit["6.6_lts"],
                           VersionLit["v6.6"], VersionLit["v6_6_lts"]}
        THEN Some("V6_6_Lts")
        ELSE IF normalized \in {VersionLit["6.17"], VersionLit["v6.17"], VersionLit["v6_17"]}
        THEN Some("V6_17")
        ELSE None

\* KernelVersion::to_string
to_string(v) ==
    IF v = "V6_6_Lts" THEN VersionLit["6.6-LTS"] ELSE VersionLit["6.17"]

-----------------------------------------------------------------------------
(* Specification SpecVersion: from_string is called on the canonical       *)
(* string of a version, on the strings of the unit tests and on strings    *)
(* obtained from the previous input by changing the case of a letter, by   *)
(* adding whitespace around it, by adding or removing a leading "v", by    *)
(* replacing the separator before the LTS suffix, or by dropping its first *)
(* or last character.                                                      *)

\* The most whitespace characters added on one side of an input.
MaxPad == 1

Whitespace == {" ", "\t"}
Separators == {".", "-", "_"}

\* The inputs the calls start from: to_string of each version, the
\* spellings of the match arms, and the strings of test_from_string_invalid
\* and of the doc comment, with two strings that extend a spelling.
SeedInputs ==
    {to_string(v) : v \in KernelVersion} \cup
    {VersionLit["6.6"], VersionLit["6.6-lts"], VersionLit["6.6_lts"], VersionLit["v6.6"],
     VersionLit["v6_6_lts"], VersionLit["6.17"], VersionLit["v6.17"], VersionLit["v6_17"],
     VersionLit["V6_6_LTS"], <<>>, VersionLit["invalid"], VersionLit["5.10"], VersionLit["7.0"],
     VersionLit["6.6.1"], VersionLit["6.170"]}

is_letter(c) == to_ascii_lowercase(c) # to_ascii_uppercase(c)

\* The number of whitespace characters s starts with.
leading_whitespace(s) ==
    Cardinality({i \in 1..Len(s) : \A j \in 1..i : is_whitespace(s[j])})

\* The number of whitespace characters s ends with.
trailing_whitespace(s) ==
    Cardinality({i \in 1..Len(s) : \A j \in i..Len(s) : is_whitespace(s[j])})

\* The positions of s at which a separator stands before the LTS suffix.
separator_positions(s) ==
    {i \in 1..(Len(s) - 3) :
        /\ s[i] \in Separators
        /\ to_lowercase(SubSeq(s, i + 1, i + 3)) = <<"l", "t", "s">>}

\* let parsed = KernelVersion::from_string(s)
CallFromString(s) ==
    /\ input' = s
    /\ parsed' = from_string(s)
    /\ UNCHANGED <<config_vars, patch_vars, bloat_vars, plan_vars, toolchain_vars, catalog_vars, report_vars>>

InitVersion ==
    /\ input \in SeedInputs
    /\ parsed = from_string(input)
    /\ ConfigIdle
    /\ PatchIdle
    /\ BloatIdle
    /\ PlanIdle
    /\ ToolchainIdle
    /\ CatalogIdle
    /\ ReportIdle

\* The letter at position i in the other case.
SwitchCase(i) ==
    /\ i \in 1..Len(input)
    /\ is_letter(input[i])
    /\ CallFromString([input EXCEPT ![i] =
            IF to_ascii_lowercase(input[i]) = input[i]
            THEN to_ascii_uppercase(input[i]) ELSE to_ascii_lowercase(input[i])])

\* A whitespace character before the input.
PadLeft(c) ==
    /\ leading_whitespace(input) < MaxPad
    /\ CallFromString(<<c>> \o input)

\* A whitespace character after the input.
PadRight(c) ==
    /\ trailing_whitespace(input) < MaxPad
    /\ CallFromString(input \o <<c>>)

\* A "v" before the first character that is not whitespace.
AddV ==
    LET n == leading_whitespace(input)
    IN  /\ n < Len(input)
        /\ to_ascii_lowercase(input[n + 1]) # "v"
        /\ CallFromString(SubSeq(input, 1, n) \o <<"v">> \o SubSeq(input, n + 1, Len(input)))

\* The leading "v" or "V" removed.
StripV ==
    LET n == leading_whitespace(input)
    IN  /\ n < Len(input)
        /\ to_ascii_lowercase(input[n + 1]) = "v"
        /\ CallFromString(SubSeq(input, 1, n) \o SubSeq(input, n + 2, Len(input)))

\* Another separator before the LTS suffix.
ReplaceSeparator(c) ==
    \E i \in separator_positions(input) :
        /\ c # input[i]
        /\ CallFromString([input EXCEPT ![i] = c])

\* The input without its first character.
DropFirst ==
    /\ Len(input) > 0
    /\ \A i \in 1..Len(input) : ~is_whitespace(input[i])
    /\ CallFromString(Tail(input))

\* The input without its last character.
DropLast ==
    /\ Len(input) > 0
    /\ \A i \in 1..Len(input) : ~is_whitespace(input[i])
    /\ CallFromString(SubSeq(input, 1, Len(input) - 1))

NextVersion ==
    \/ \E i \in 1..Len(input) : SwitchCase(i)
    \/ \E c \in Whitespace : PadLeft(c)
    \/ \E c \in Whitespace : PadRight(c)
    \/ AddV
    \/ StripV
    \/ \E c \in Separators : ReplaceSeparator(c)
    \/ DropFirst
    \/ DropLast

SpecVersion == InitVersion /\ [][NextVersion]_vars

-----------------------------------------------------------------------------
(* Claims on KernelVersion. *)

\* C4: from_string(to_string(v)) is Some(v) for every version v, and a
\* further accepted spelling, different from to_string(v), parses to
\* Some(v) as well.
C4_RoundTrip ==
    /\ \A v \in KernelVersion : input = to_string(v) => parsed = Some(v)
    /\ \A v \in KernelVersion :
          \E s \in SeedInputs : s # to_string(v) /\ from_string(s) = Some(v)

\* from_string was called on the canonical string of the LTS version.
C4_Witness ==
    /\ input = to_string("V6_6_Lts")
    /\ input = <<"6", ".", "6", "-", "L", "T", "S">>
    /\ parsed = Some("V6_6_Lts")

\* The next input is the input in another letter case or with more
\* whitespace around it.
ChangesCaseOrWhitespace ==
    \/ \E i \in 1..Len(input) : SwitchCase(i)
    \/ \E c \in Whitespace : PadLeft(c)
    \/ \E c \in Whitespace : PadRight(c)

\* The next input is the input with or without its leading "v".
ChangesLeadingV == AddV \/ StripV

\* C5 as stated: an input that parses to a tag parses to the same tag in
\* another letter case, with whitespace around it, with or without a
\* leading "v", and with another of dot, dash and underscore before the LTS
\* suffix.
C5_AllNormalizations ==
    [][(/\ parsed # None
        /\ \/ ChangesCaseOrWhitespace
           \/ ChangesLeadingV
           \/ \E c \in Separators : ReplaceSeparator(c))
       => parsed' = parsed]_vars

\* C5 as amended: an input that parses to a tag parses to the same tag in
\* another letter case and with whitespace around it.  Adding or removing
\* the leading "v" keeps the tag when the spelling is "6.6", "v6.6", "6.17"
\* or "v6.17" and otherwise gives no match; replacing the separator before
\* the LTS suffix keeps the tag when it turns "6.6-lts" into "6.6_lts" or
\* back and otherwise gives no match.
C5_CaseAndWhitespace ==
    [][parsed # None =>
        LET spelling == trim(to_lowercase(input))
        IN  /\ ChangesCaseOrWhitespace => parsed' = parsed
            /\ ChangesLeadingV =>
                  parsed' = (IF spelling \in {VersionLit["6.6"], VersionLit["v6.6"],
                                              VersionLit["6.17"], VersionLit["v6.17"]}
                             THEN parsed ELSE None)
            /\ \A c \in Separators :
                  ReplaceSeparator(c) =>
                      parsed' = (IF /\ spelling \in {VersionLit["6.6-lts"], VersionLit["6.6_lts"]}
                                    /\ c \in {"-", "_"}
                                 THEN parsed ELSE None)]_vars

\* An upper-case spelling with whitespace on both sides was parsed to the
\* LTS version.
C5_Witness ==
    /\ parsed = Some("V6_6_Lts")
    /\ leading_whitespace(input) > 0
    /\ trailing_whitespace(input) > 0
    /\ trim(input) = VersionLit["V6_6_LTS"]

\* The input is the spelling m in some letter case, with any whitespace
\* around it.
IsSpelling(s, m) ==
    \E a \in 0..Len(s) :
        /\ a + Len(m) <= Len(s)
        /\ \A i \in 1..a : is_whitespace(s[i])
        /\ \A i \in (a + Len(m) + 1)..Len(s) : is_whitespace(s[i])
        /\ \A i \in 1..Len(m) : to_ascii_uppercase(s[a + i]) = to_ascii_uppercase(m[i])

\* C6: from_string returns a tag only for the spellings of its table (in
\* any letter case, with any whitespace around them) and None for every
\* other string, never the default target; "", "invalid", "5.10" and "7.0"
\* give None, and "6.6-lts", "V6_6_LTS" and "6.6" give the same tag.
C6_OnlyMappedSpellings ==
    LET lts == {<<"6", ".", "6">>, <<"6", ".", "6", "-", "l", "t", "s">>,
                <<"6", ".", "6", "_", "l", "t", "s">>, <<"v", "6", ".", "6">>,
                <<"v", "6", "_", "6", "_", "l", "t", "s">>}
        v17 == {<<"6", ".", "1", "7">>, <<"v", "6", ".", "1", "7">>, <<"v", "6", "_", "1", "7">>}
    IN  /\ parsed = (IF \E m \in lts : IsSpelling(input, m) THEN Some("V6_6_Lts")
                     ELSE IF \E m \in v17 : IsSpelling(input, m) THEN Some("V6_17")
                     ELSE None)
        /\ input \in {<<>>, VersionLit["invalid"], VersionLit["5.10"], VersionLit["7.0"]}
              => parsed = None
        /\ input \in {VersionLit["6.6-lts"], VersionLit["V6_6_LTS"], VersionLit["6.6"]}
              => parsed = Some("V6_6_Lts")

\* from_string was called on "v6.6-lts", which is none of the spellings of
\* the table although each of its parts is accepted in one, and gave None.
C6_Witness ==
    /\ input = <<"v", "6", ".", "6", "-", "l", "t", "s">>
    /\ parsed = None

-----------------------------------------------------------------------------
(* patches.rs: Patch and PatchResolver *)

\* The patch names of patches.rs, as bytes, and a name that extends one.
PatchLit ==
    ("BORE" :> <<"B","O","R","E">>) @@
    ("BBRv3" :> <<"B","B","R","v","3">>) @@
    ("FUTEX2" :> <<"F","U","T","E","X","2">>) @@
    ("PREEMPT_RT" :> <<"P","R","E","E","M","P","T","_","R","T">>) @@
    ("PREEMPT_RT_FULL" :> <<"P","R","E","E","M","P","T","_","R","T","_","F","U","L","L">>)

\* Patch::new
Patch(name, description, source, is_upstream) ==
    [name |-> name, description |-> description, source |-> source,
     is_upstream |-> is_upstream]

\* PatchResolver::get_v6_6_patches
get_v6_6_patches ==
    <<  Patch(PatchLit["BORE"],
              "Burst-Oriented Response Enhancer scheduler - reduces latency for gaming",
              "https://github.com/firelzrd/bore-scheduler/6.6",
              FALSE),
        Patch(PatchLit["BBRv3"],
              "TCP BBR v3 congestion control - improves network performance",
              "https://github.com/google/bbr/v3-6.6",
              FALSE),
        Patch(PatchLit["FUTEX2"],
              "Futex2 system call - already in 6.6, no external patch needed",
              "upstream",
              TRUE),
        Patch(PatchLit["PREEMPT_RT"],
              "Real-time preemption patches for low latency",
              "https://kernel.org/pub/linux/kernel/projects/rt/6.6/",
              FALSE)  >>

\* A 6.17 catalog that takes the upstream flags of the 6.6 catalog.
get_v6_17_patches_flags_of_v6_6 ==
    <<  Patch(PatchLit["BORE"],
              "Burst-Oriented Response Enhancer scheduler - reduces latency for gaming (6.17 compatible)",
              "https://github.com/firelzrd/bore-scheduler/6.17",
              FALSE),
        Patch(PatchLit["BBRv3"],
              "TCP BBR v3 congestion control - many improvements in 6.17 mainline",
              "upstream",
              FALSE),
        Patch(PatchLit["FUTEX2"],
              "Futex2 system call - upstream in mainline since 5.16",
              "upstream",
              TRUE)  >>

\* PatchResolver::get_v6_17_patches
get_v6_17_patches ==
    <<  Patch(PatchLit["BORE"],
              "Burst-Oriented Response Enhancer scheduler - reduces latency for gaming (6.17 compatible)",
              "https://github.com/firelzrd/bore-scheduler/6.17",
              FALSE),
        Patch(PatchLit["BBRv3"],
              "TCP BBR v3 congestion control - many improvements in 6.17 mainline",
              "upstream",
              TRUE),
        Patch(PatchLit["FUTEX2"],
              "Futex2 system call - upstream in mainline since 5.16",
              "upstream",
              TRUE)  >>

\* PatchResolver::get_patches_for_version
get_patches_for_version(v) ==
    IF v = "V6_6_Lts" THEN get_v6_6_patches ELSE get_v6_17_patches

\* An is_patch_available that matches like get_patches_by_feature: the
\* patch name contains the given name, ignoring case.
is_patch_available_by_substring(v, name) ==
    \E i \in DOMAIN get_patches_for_version(v) :
        contains(to_lowercase(get_patches_for_version(v)[i].name), to_lowercase(name))

\* PatchResolver::is_patch_available
is_patch_available(v, name) ==
    \E i \in DOMAIN get_patches_for_version(v) :
        eq_ignore_ascii_case(get_patches_for_version(v)[i].name, name)

\* A get_external_patches that filters nothing out.
get_external_patches_unfiltered(v) == get_patches_for_version(v)

\* PatchResolver::get_external_patches
get_external_patches(v) ==
    SelectSeq(get_patches_for_version(v), LAMBDA p : ~p.is_upstream)

-----------------------------------------------------------------------------
(* build_plan.rs: the plan BuildPlan::new assembles *)

\* ToolchainConfig::default
ToolchainConfig_default == [compiler |-> "Clang", use_lld |-> TRUE, lto |-> "None"]

\* ConfigGenerator::generate_baseline: the options of the baseline for a
\* version, with the keys and values the integration tests find in it.
generate_baseline(v) ==
    <<  [key |-> "CONFIG_64BIT", value |-> "Yes"],
        [key |-> "CONFIG_X86_64", value |-> "Yes"],
        [key |-> "CONFIG_MODULES", value |-> "Yes"],
        [key |-> "CONFIG_PREEMPT", value |-> "Yes"],
        [key |-> "CONFIG_HZ_1000", value |-> "Yes"],
        [key |-> "CONFIG_HZ", value |-> "1000"]  >>

\* BuildPlan::new
BuildPlan_new(v) ==
    [version |-> v,
     patches |-> get_patches_for_version(v),
     config_options |-> generate_baseline(v),
     toolchain |-> ToolchainConfig_default]

-----------------------------------------------------------------------------
(* Specification SpecPatches: for a version and a patch name, the queries  *)
(* of PatchResolver are made and a plan is built, in any order.  The patch *)
(* names are the names of the catalogs and a name that extends one, their  *)
(* contiguous parts, and each of these in lower case, in upper case and    *)
(* with the case of one letter changed.                                    *)

\* The contiguous parts of s, s and the empty string included.
substrings(s) == {SubSeq(s, i, j) : i \in 1..(Len(s) + 1), j \in 0..Len(s)}

\* s, s in one case, and s with the case of one letter changed.
case_variants(s) ==
    {s, to_lowercase(s), [i \in 1..Len(s) |-> to_ascii_uppercase(s[i])]} \cup
    {[s EXCEPT ![i] = IF to_ascii_lowercase(s[i]) = s[i]
                      THEN to_ascii_uppercase(s[i]) ELSE to_ascii_lowercase(s[i])] :
        i \in 1..Len(s)}

PatchNames ==
    UNION {case_variants(t) :
            t \in UNION {substrings(PatchLit[n]) : n \in DOMAIN PatchLit}}

InitPatches ==
    /\ version \in KernelVersion
    /\ patch_name \in PatchNames
    /\ call = IdleCall
    /\ ConfigIdle
    /\ VersionIdle
    /\ BloatIdle
    /\ PlanIdle
    /\ ToolchainIdle
    /\ CatalogIdle
    /\ ReportIdle

\* let ret = PatchResolver::is_patch_available(version, patch_name)
IsPatchAvailable ==
    /\ call' = [fn |-> "is_patch_available", ret |-> is_patch_available(version, patch_name)]
    /\ UNCHANGED <<version, patch_name, config_vars, version_vars,
                 bloat_vars, plan_vars, toolchain_vars, catalog_vars, report_vars>>

\* let ret = PatchResolver::get_external_patches(version)
GetExternalPatches ==
    /\ call' = [fn |-> "get_external_patches", ret |-> get_external_patches(version)]
    /\ UNCHANGED <<version, patch_name, config_vars, version_vars,
                 bloat_vars, plan_vars, toolchain_vars, catalog_vars, report_vars>>

\* let ret = BuildPlan::new(version)
NewBuildPlan ==
    /\ call' = [fn |-> "BuildPlan::new", ret |-> BuildPlan_new(version)]
    /\ UNCHANGED <<version, patch_name, config_vars, version_vars,
                 bloat_vars, plan_vars, toolchain_vars, catalog_vars, report_vars>>

NextPatches ==
    \/ IsPatchAvailable
    \/ GetExternalPatches
    \/ NewBuildPlan

SpecPatches == InitPatches /\ [][NextPatches]_vars

-----------------------------------------------------------------------------
(* Claims on the patch catalog. *)

\* p is an entry of the sequence s.
InSeq(p, s) == \E i \in DOMAIN s : s[i] = p

\* C7: the external patches of a version and the upstream entries of its
\* catalog partition the catalog: every catalog entry is in exactly one of
\* the two, the external patches hold nothing that is not in the catalog,
\* and they are in catalog order.
C7_ExternalUpstreamPartition ==
    call.fn = "get_external_patches" =>
        LET external == call.ret
            catalog  == get_patches_for_version(version)
            upstream == SelectSeq(catalog, LAMBDA p : p.is_upstream = TRUE)
        IN  /\ \A i \in DOMAIN catalog :
                  InSeq(catalog[i], external) # InSeq(catalog[i], upstream)
            /\ \A j \in DOMAIN external : InSeq(external[j], catalog)
            /\ Len(external) + Len(upstream) = Len(catalog)
            /\ external = SelectSeq(catalog, LAMBDA p : InSeq(p, external))

\* The external patches of 6.17 were asked for: one patch of a catalog of
\* three.
C7_Witness ==
    /\ call.fn = "get_external_patches"
    /\ version = "V6_17"
    /\ Len(call.ret) = 1
    /\ Len(get_patches_for_version(version)) = 3

\* The names of a patch list with their upstream flags, in list order.
NamesAndFlags(patches) ==
    [i \in 1..Len(patches) |-> <<patches[i].name, patches[i].is_upstream>>]

\* C8: the plan built for 6.6 LTS carries BORE, BBRv3 and PREEMPT_RT as
\* external and FUTEX2 as upstream patches; the plan built for 6.17 carries
\* BORE as external and BBRv3 and FUTEX2 as upstream patches and no
\* PREEMPT_RT; the patches of a plan built by BuildPlan::new are exactly the
\* catalog of its version.
C8_CatalogContents ==
    call.fn = "BuildPlan::new" =>
        /\ call.ret.version = version
        /\ call.ret.patches = get_patches_for_version(version)
        /\ version = "V6_6_Lts" =>
              NamesAndFlags(call.ret.patches) =
                  <<  <<PatchLit["BORE"], FALSE>>, <<PatchLit["BBRv3"], FALSE>>,
                      <<PatchLit["FUTEX2"], TRUE>>, <<PatchLit["PREEMPT_RT"], FALSE>>  >>
        /\ version = "V6_17" =>
              /\ NamesAndFlags(call.ret.patches) =
                  <<  <<PatchLit["BORE"], FALSE>>, <<PatchLit["BBRv3"], TRUE>>,
                      <<PatchLit["FUTEX2"], TRUE>>  >>
              /\ \A i \in DOMAIN call.ret.patches :
                    call.ret.patches[i].name # PatchLit["PREEMPT_RT"]

\* A plan was built for 6.17, where BBRv3 is upstream.
C8_Witness ==
    /\ call.fn = "BuildPlan::new"
    /\ version = "V6_17"
    /\ \E i \in DOMAIN call.ret.patches :
          call.ret.patches[i].name = PatchLit["BBRv3"] /\ call.ret.patches[i].is_upstream

\* The patch names of each catalog, as C9 reads them from the catalogs.
C9_Names(v) ==
    IF v = "V6_6_Lts"
    THEN {<<"B", "O", "R", "E">>, <<"B", "B", "R", "v", "3">>,
          <<"F", "U", "T", "E", "X", "2">>,
          <<"P", "R", "E", "E", "M", "P", "T", "_", "R", "T">>}
    ELSE {<<"B", "O", "R", "E">>, <<"B", "B", "R", "v", "3">>,
          <<"F", "U", "T", "E", "X", "2">>}

\* a and b are the same name up to the case of their letters.
SameIgnoringCase(a, b) ==
    [i \in 1..Len(a) |-> to_ascii_uppercase(a[i])] = [i \in 1..Len(b) |-> to_ascii_uppercase(b[i])]

\* C9: is_patch_available(v, n) is true exactly when the catalog of v holds
\* a patch whose name is n up to letter case; a proper part of a patch name
\* and a name that extends a patch name are not available, and PREEMPT_RT
\* is not available for 6.17.
C9_ExactNameMatch ==
    call.fn = "is_patch_available" =>
        LET exact == \E n \in C9_Names(version) : SameIgnoringCase(patch_name, n)
            part_or_extension ==
                \E n \in C9_Names(version) :
                    /\ Len(patch_name) # Len(n)
                    /\ \/ contains(to_lowercase(n), to_lowercase(patch_name))
                       \/ contains(to_lowercase(patch_name), to_lowercase(n))
        IN  /\ call.ret = exact
            /\ (part_or_extension /\ ~exact) => call.ret = FALSE
            /\ (version = "V6_17" /\ SameIgnoringCase(patch_name, PatchLit["PREEMPT_RT"]))
                  => call.ret = FALSE

\* is_patch_available was asked for "preempt_rt" on 6.17, where only the
\* other catalog holds the patch.
C9_Witness ==
    /\ call.fn = "is_patch_available"
    /\ version = "V6_17"
    /\ patch_name = to_lowercase(PatchLit["PREEMPT_RT"])
    /\ call.ret = FALSE

-----------------------------------------------------------------------------
(* config.rs: KernelConfig::apply_bloat_removal *)

\* The keys apply_bloat_removal unsets, as bytes.
BloatLit ==
    ("CONFIG_INFINIBAND" :> <<"C","O","N","F","I","G","_","I","N","F","I","N","I","B","A","N","D">>) @@
    ("CONFIG_FIBRE_CHANNEL" :> <<"C","O","N","F","I","G","_","F","I","B","R","E","_","C","H","A","N","N","E","L">>) @@
    ("CONFIG_SCSI_TAPE" :> <<"C","O","N","F","I","G","_","S","C","S","I","_","T","A","P","E">>) @@
    ("CONFIG_LEGACY_HARDWARE" :> <<"C","O","N","F","I","G","_","L","E","G","A","C","Y","_","H","A","R","D","W","A","R","E">>) @@
    ("CONFIG_CLUSTERING" :> <<"C","O","N","F","I","G","_","C","L","U","S","T","E","R","I","N","G">>) @@
    ("CONFIG_MAINFRAME_SUPPORT" :> <<"C","O","N","F","I","G","_","M","A","I","N","F","R","A","M","E","_","S","U","P","P","O","R","T">>) @@
    ("CONFIG_SPI" :> <<"C","O","N","F","I","G","_","S","P","I">>) @@
    ("CONFIG_I2C_SENSORS" :> <<"C","O","N","F","I","G","_","I","2","C","_","S","E","N","S","O","R","S">>) @@
    ("CONFIG_INDUSTRIAL_BUSES" :> <<"C","O","N","F","I","G","_","I","N","D","U","S","T","R","I","A","L","_","B","U","S","E","S">>) @@
    ("CONFIG_DECNET" :> <<"C","O","N","F","I","G","_","D","E","C","N","E","T">>) @@
    ("CONFIG_APPLETALK" :> <<"C","O","N","F","I","G","_","A","P","P","L","E","T","A","L","K">>) @@
    ("CONFIG_X25" :> <<"C","O","N","F","I","G","_","X","2","5">>) @@
    ("CONFIG_AMATEUR_RADIO" :> <<"C","O","N","F","I","G","_","A","M","A","T","E","U","R","_","R","A","D","I","O">>)

\* The most category names in the list of one apply_bloat_removal call.
MaxCategories == 2

\* The category names apply_bloat_removal has a match arm for.
MatchedCategories ==
    {"Architecture Cleanup", "Industrial Hardware Removal", "Enterprise Features Removal",
     "Embedded Systems Removal", "Legacy Hardware Removal", "Networking Protocols Cleanup"}

\* A match in which "Architecture Cleanup" clears every architecture key,
\* the target architecture included.
category_unsets_every_architecture(category) ==
    CASE category = "Architecture Cleanup" ->
            <<ConfigLit["CONFIG_X86_64"], ConfigLit["CONFIG_ARM"], ConfigLit["CONFIG_MIPS"]>>
      [] category = "Industrial Hardware Removal" ->
            <<BloatLit["CONFIG_INFINIBAND"], BloatLit["CONFIG_FIBRE_CHANNEL"],
              BloatLit["CONFIG_SCSI_TAPE"], BloatLit["CONFIG_LEGACY_HARDWARE"]>>
      [] category = "Enterprise Features Removal" ->
            <<BloatLit["CONFIG_CLUSTERING"], BloatLit["CONFIG_MAINFRAME_SUPPORT"]>>
      [] category = "Embedded Systems Removal" ->
            <<BloatLit["CONFIG_SPI"], BloatLit["CONFIG_I2C_SENSORS"],
              BloatLit["CONFIG_INDUSTRIAL_BUSES"]>>
      [] category = "Legacy Hardware Removal" -> <<>>
      [] category = "Networking Protocols Cleanup" ->
            <<BloatLit["CONFIG_DECNET"], BloatLit["CONFIG_APPLETALK"],
              BloatLit["CONFIG_X25"], BloatLit["CONFIG_AMATEUR_RADIO"]>>
      [] OTHER -> <<>>

\* A match whose "Legacy Hardware Removal" arm unsets the legacy keys
\* itself and whose default arm clears the industrial keys.
category_unsets_legacy_and_default(category) ==
    CASE category = "Architecture Cleanup" -> <<>>
      [] category = "Industrial Hardware Removal" ->
            <<BloatLit["CONFIG_INFINIBAND"], BloatLit["CONFIG_FIBRE_CHANNEL"],
              BloatLit["CONFIG_SCSI_TAPE"], BloatLit["CONFIG_LEGACY_HARDWARE"]>>
      [] category = "Enterprise Features Removal" ->
            <<BloatLit["CONFIG_CLUSTERING"], BloatLit["CONFIG_MAINFRAME_SUPPORT"]>>
      [] category = "Embedded Systems Removal" ->
            <<BloatLit["CONFIG_SPI"], BloatLit["CONFIG_I2C_SENSORS"],
              BloatLit["CONFIG_INDUSTRIAL_BUSES"]>>
      [] category = "Legacy Hardware Removal" ->
            <<ConfigLit["CONFIG_ISA"], ConfigLit["CONFIG_EISA"], ConfigLit["CONFIG_MCA"],
              ConfigLit["CONFIG_PARALLEL_PORT"], ConfigLit["CONFIG_FLOPPY"],
              ConfigLit["CONFIG_IDE"]>>
      [] category = "Networking Protocols Cleanup" ->
            <<BloatLit["CONFIG_DECNET"], BloatLit["CONFIG_APPLETALK"],
              BloatLit["CONFIG_X25"], BloatLit["CONFIG_AMATEUR_RADIO"]>>
      [] OTHER -> <<BloatLit["CONFIG_INFINIBAND"]>>

\* The modules only the bloat removal engine lists, as bytes.
EngineLit ==
    ("CONFIG_VIRTUALIZATION" :> <<"C","O","N","F","I","G","_","V","I","R","T","U","A","L","I","Z","A","T","I","O","N">>) @@
    ("CONFIG_REISERFS" :> <<"C","O","N","F","I","G","_","R","E","I","S","E","R","F","S">>) @@
    ("CONFIG_JFS" :> <<"C","O","N","F","I","G","_","J","F","S">>) @@
    ("CONFIG_HFS" :> <<"C","O","N","F","I","G","_","H","F","S">>) @@
    ("CONFIG_SELINUX" :> <<"C","O","N","F","I","G","_","S","E","L","I","N","U","X">>) @@
    ("CONFIG_APPARMOR" :> <<"C","O","N","F","I","G","_","A","P","P","A","R","M","O","R">>) @@
    ("CONFIG_TOMOYO" :> <<"C","O","N","F","I","G","_","T","O","M","O","Y","O">>) @@
    ("CONFIG_ALSA" :> <<"C","O","N","F","I","G","_","A","L","S","A">>) @@
    ("CONFIG_PULSEWIRE" :> <<"C","O","N","F","I","G","_","P","U","L","S","E","W","I","R","E">>)

\* A match whose "Enterprise Features Removal" arm unsets
\* CONFIG_VIRTUALIZATION as well, as the engine's list has it.
category_unsets_with_virtualization(category) ==
    CASE category = "Architecture Cleanup" -> <<>>
      [] category = "Industrial Hardware Removal" ->
            <<BloatLit["CONFIG_INFINIBAND"], BloatLit["CONFIG_FIBRE_CHANNEL"],
              BloatLit["CONFIG_SCSI_TAPE"], BloatLit["CONFIG_LEGACY_HARDWARE"]>>
      [] category = "Enterprise Features Removal" ->
            <<BloatLit["CONFIG_CLUSTERING"], BloatLit["CONFIG_MAINFRAME_SUPPORT"],
              EngineLit["CONFIG_VIRTUALIZATION"]>>
      [] category = "Embedded Systems Removal" ->
            <<BloatLit["CONFIG_SPI"], BloatLit["CONFIG_I2C_SENSORS"],
              BloatLit["CONFIG_INDUSTRIAL_BUSES"]>>
      [] category = "Legacy Hardware Removal" -> <<>>
      [] category = "Networking Protocols Cleanup" ->
            <<BloatLit["CONFIG_DECNET"], BloatLit["CONFIG_APPLETALK"],
              BloatLit["CONFIG_X25"], BloatLit["CONFIG_AMATEUR_RADIO"]>>
      [] OTHER -> <<>>

\* The keys the match arm of a category unsets, in order.
category_unsets(category) ==
    CASE category = "Architecture Cleanup" -> <<>>
      [] category = "Industrial Hardware Removal" ->
            <<BloatLit["CONFIG_INFINIBAND"], BloatLit["CONFIG_FIBRE_CHANNEL"],
              BloatLit["CONFIG_SCSI_TAPE"], BloatLit["CONFIG_LEGACY_HARDWARE"]>>
      [] category = "Enterprise Features Removal" ->
            <<BloatLit["CONFIG_CLUSTERING"], BloatLit["CONFIG_MAINFRAME_SUPPORT"]>>
      [] category = "Embedded Systems Removal" ->
            <<BloatLit["CONFIG_SPI"], BloatLit["CONFIG_I2C_SENSORS"],
              BloatLit["CONFIG_INDUSTRIAL_BUSES"]>>
      [] category = "Legacy Hardware Removal" -> <<>>
      [] category = "Networking Protocols Cleanup" ->
            <<BloatLit["CONFIG_DECNET"], BloatLit["CONFIG_APPLETALK"],
              BloatLit["CONFIG_X25"], BloatLit["CONFIG_AMATEUR_RADIO"]>>
      [] OTHER -> <<>>

\* The calls apply_bloat_removal makes on self for a list of categories.
RECURSIVE apply_bloat_removal_calls(_)
apply_bloat_removal_calls(cats) ==
    IF Len(cats) = 0 THEN <<>>
    ELSE LET unsets == category_unsets(cats[1])
         IN  [i \in 1..Len(unsets) |-> <<"unset", unsets[i]>>]
                \o apply_bloat_removal_calls(Tail(cats))

\* KernelConfig::apply_bloat_removal
apply_bloat_removal(self, cats) == apply_calls(self, apply_bloat_removal_calls(cats))

\* bloat_removal.rs: the removable categories of BloatRemovalEngine::new, in
\* order, each with its modules.
removable_categories ==
    << [name |-> "Architecture Cleanup",
        modules |-> <<"CONFIG_ARM", "CONFIG_MIPS", "CONFIG_POWERPC", "CONFIG_RISCV">>],
       [name |-> "Industrial Hardware Removal",
        modules |-> <<"CONFIG_INFINIBAND", "CONFIG_FIBRE_CHANNEL", "CONFIG_SCSI_TAPE",
                      "CONFIG_LEGACY_HARDWARE">>],
       [name |-> "Enterprise Features Removal",
        modules |-> <<"CONFIG_CLUSTERING", "CONFIG_MAINFRAME_SUPPORT",
                      "CONFIG_VIRTUALIZATION">>],
       [name |-> "Embedded Systems Removal",
        modules |-> <<"CONFIG_SPI", "CONFIG_I2C_SENSORS", "CONFIG_INDUSTRIAL_BUSES">>],
       [name |-> "Legacy Hardware Removal",
        modules |-> <<"CONFIG_ISA", "CONFIG_EISA", "CONFIG_MCA", "CONFIG_PARALLEL_PORT",
                      "CONFIG_FLOPPY", "CONFIG_IDE">>],
       [name |-> "Obscure Filesystems Removal",
        modules |-> <<"CONFIG_REISERFS", "CONFIG_JFS", "CONFIG_HFS">>],
       [name |-> "Networking Protocols Cleanup",
        modules |-> <<"CONFIG_DECNET", "CONFIG_APPLETALK", "CONFIG_X25",
                      "CONFIG_AMATEUR_RADIO">>],
       [name |-> "Security Modules Cleanup",
        modules |-> <<"CONFIG_SELINUX", "CONFIG_APPARMOR", "CONFIG_TOMOYO">>],
       [name |-> "Sound Drivers Cleanup",
        modules |-> <<"CONFIG_ALSA", "CONFIG_PULSEWIRE">>] >>

\* bloat_removal.rs: the critical modules of BloatRemovalEngine::new.
engine_critical_modules == {"CONFIG_X86_64"}

\* BloatRemovalEngine::new
BloatRemovalEngine_new ==
    [removable_categories |-> removable_categories,
     critical_modules |-> engine_critical_modules]

\* BloatRemovalEngine::remove_module: the line it prints.
remove_module(self, module) ==
    IF module \in self.critical_modules
    THEN <<"Cannot remove critical module", module>>
    ELSE <<"Removing module", module>>

\* An analyze_and_remove that hands every module of a selected category to
\* remove_module, without looking at the critical modules itself.
RECURSIVE analyze_and_remove_from_unchecked(_, _, _)
analyze_and_remove_from_unchecked(self, i, selected_categories) ==
    IF i > Len(self.removable_categories) THEN <<>>
    ELSE LET category == self.removable_categories[i]
         IN  (IF \E j \in DOMAIN selected_categories : selected_categories[j] = category.name
              THEN [n \in 1..Len(category.modules) |-> remove_module(self, category.modules[n])]
              ELSE <<>>)
                 \o analyze_and_remove_from_unchecked(self, i + 1, selected_categories)

analyze_and_remove_unchecked(self, selected_categories) ==
    analyze_and_remove_from_unchecked(self, 1, selected_categories)

\* BloatRemovalEngine::analyze_and_remove: the lines it prints, in order.
RECURSIVE analyze_and_remove_from(_, _, _)
analyze_and_remove_from(self, i, selected_categories) ==
    IF i > Len(self.removable_categories) THEN <<>>
    ELSE LET category == self.removable_categories[i]
             modules  == SelectSeq(category.modules,
                                   LAMBDA m : m \notin self.critical_modules)
         IN  (IF \E j \in DOMAIN selected_categories : selected_categories[j] = category.name
              THEN [n \in 1..Len(modules) |-> remove_module(self, modules[n])]
              ELSE <<>>)
                 \o analyze_and_remove_from(self, i + 1, selected_categories)

analyze_and_remove(self, selected_categories) ==
    analyze_and_remove_from(self, 1, selected_categories)

\* history1 after a sequence of calls on config1.
record_calls(h, calls) ==
    [h EXCEPT !.last = last_calls(h.last, calls),
              !.touched = h.touched \cup {calls[i][2] : i \in DOMAIN calls}]

-----------------------------------------------------------------------------
(* Specification SpecBloat: a configuration made by KernelConfig::new or   *)
(* by x86_64_baseline, on which the caller sets and unsets keys and calls  *)
(* apply_bloat_removal with lists of category names, any number of times   *)
(* and in any order.  categories and before hold the arguments of a        *)
(* removal until the caller drops them and goes on.                        *)

\* The category names the lists are made of: those apply_bloat_removal
\* matches, one that only the bloat removal engine lists and one nobody
\* knows.
CategoryNames ==
    MatchedCategories \cup {"Obscure Filesystems Removal", "Unknown"}

CategoryLists == UNION {[1..n -> CategoryNames] : n \in 0..MaxCategories}

\* The key the caller sets and unsets: the critical key.
BloatKeys == {ConfigLit["CONFIG_X86_64"]}

InitBloat ==
    /\ \/ config1 = new(0) /\ history1 = history_new
       \/ config1 = x86_64_baseline(0) /\ history1 = history_x86_64_baseline
    /\ config2 = new(0)
    /\ output1 = None
    /\ output2 = None
    /\ BloatIdle
    /\ VersionIdle
    /\ PatchIdle
    /\ PlanIdle
    /\ ToolchainIdle
    /\ CatalogIdle
    /\ ReportIdle

\* config1.set(k, v), between two category removals
BloatSet(k, v) ==
    /\ categories = None
    /\ config1' = set(config1, k, v)
    /\ history1' = record_call(history1, <<"set", k, v>>)
    /\ UNCHANGED <<config2, output1, output2, version_vars, patch_vars,
                 bloat_vars, plan_vars, toolchain_vars, catalog_vars, report_vars>>

\* config1.unset(k), between two category removals
BloatUnset(k) ==
    /\ categories = None
    /\ config1' = unset(config1, k)
    /\ history1' = record_call(history1, <<"unset", k>>)
    /\ UNCHANGED <<config2, output1, output2, version_vars, patch_vars,
                 bloat_vars, plan_vars, toolchain_vars, catalog_vars, report_vars>>

\* config1.apply_bloat_removal(cats)
ApplyBloatRemoval(cats) ==
    /\ categories = None
    /\ before' = Some(config1)
    /\ categories' = Some(cats)
    /\ config1' = apply_bloat_removal(config1, cats)
    /\ history1' = record_calls(history1, apply_bloat_removal_calls(cats))
    /\ UNCHANGED <<config2, output1, output2, version_vars, patch_vars,
                 plan_vars, toolchain_vars, catalog_vars, report_vars>>

\* engine.analyze_and_remove(categories), on the list config1 was given
AnalyzeAndRemove ==
    /\ categories # None
    /\ call = IdleCall
    /\ call' = [fn |-> "analyze_and_remove", ret |-> analyze_and_remove(BloatRemovalEngine_new, unwrap(categories))]
    /\ UNCHANGED <<version, patch_name, config_vars, version_vars,
                 bloat_vars, plan_vars, toolchain_vars, catalog_vars, report_vars>>

\* The caller drops the list of categories and goes on with config1.
DropCategories ==
    /\ categories # None
    /\ categories' = None
    /\ before' = None
    /\ call' = IdleCall
    /\ UNCHANGED <<version, patch_name, config_vars, version_vars,
                 plan_vars, toolchain_vars, catalog_vars, report_vars>>

NextBloat ==
    \/ \E k \in BloatKeys : BloatSet(k, ConfigLit["y"])
    \/ \E k \in BloatKeys : BloatUnset(k)
    \/ \E cats \in CategoryLists : ApplyBloatRemoval(cats)
    \/ AnalyzeAndRemove
    \/ DropCategories

SpecBloat == InitBloat /\ [][NextBloat]_vars

\* One removal: the configuration is built, apply_bloat_removal is called
\* once and the engine analyses the list.
NextBloatOnce ==
    \/ \E k \in BloatKeys : BloatSet(k, ConfigLit["y"])
    \/ \E k \in BloatKeys : BloatUnset(k)
    \/ \E cats \in CategoryLists : ApplyBloatRemoval(cats)
    \/ AnalyzeAndRemove

SpecBloatOnce == InitBloat /\ [][NextBloatOnce]_vars

-----------------------------------------------------------------------------
(* Specification SpecEngine: a configuration made by KernelConfig::new or  *)
(* by x86_64_baseline, in which the caller sets and unsets the critical    *)
(* key and a key that only the engine lists; apply_bloat_removal is called *)
(* once, and a bloat removal engine analyses the same list of categories.  *)
(* The engine is the one of BloatRemovalEngine::new, or one whose table    *)
(* lists the critical module in a category.                                *)

\* The category names of the engine's table, and one nobody knows.
EngineNames ==
    {removable_categories[i].name : i \in DOMAIN removable_categories} \cup {"Unknown"}

EngineLists == UNION {[1..n -> EngineNames] : n \in 0..MaxCategories}

\* The keys the caller sets and unsets.
EngineKeys == {ConfigLit["CONFIG_X86_64"], EngineLit["CONFIG_VIRTUALIZATION"]}

\* An engine whose category i lists the critical module at place n.
engine_listing_critical(i, n) ==
    [BloatRemovalEngine_new EXCEPT
        !.removable_categories[i].modules =
            SubSeq(@, 1, n - 1) \o <<"CONFIG_X86_64">> \o SubSeq(@, n, Len(@))]

Engines ==
    {BloatRemovalEngine_new, engine_listing_critical(1, 1), engine_listing_critical(2, 3)}

\* engine.analyze_and_remove(categories), on the list config1 was given
EngineAnalyzeAndRemove(engine) ==
    /\ categories # None
    /\ call = IdleCall
    /\ call' = [fn |-> "analyze_and_remove", self |-> engine,
                ret |-> analyze_and_remove(engine, unwrap(categories))]
    /\ UNCHANGED <<version, patch_name, config_vars, version_vars,
                 bloat_vars, plan_vars, toolchain_vars, catalog_vars, report_vars>>

NextEngine ==
    \/ \E k \in EngineKeys : BloatSet(k, ConfigLit["y"])
    \/ \E k \in EngineKeys : BloatUnset(k)
    \/ \E cats \in EngineLists : ApplyBloatRemoval(cats)
    \/ \E engine \in Engines : EngineAnalyzeAndRemove(engine)

SpecEngine == InitBloat /\ [][NextEngine]_vars

-----------------------------------------------------------------------------
(* Claims on the category removal. *)

\* The critical-module set, as keys of a KernelConfig.
C11_CriticalKeys == {ConfigLit["CONFIG_X86_64"]}

\* C11: whatever the configuration and the list of categories, after
\* apply_bloat_removal a critical key (CONFIG_X86_64) is "not set" only if
\* it was "not set" before the call, and a critical key that was set is
\* still set to the same value; and analyze_and_remove of the bloat
\* removal engine removes no critical module for the same list.
C11_CriticalKeysKept ==
    categories # None =>
        LET b == unwrap(before).config_map
            a == config1.config_map
        IN  /\ \A k \in C11_CriticalKeys :
                  /\ (k \in DOMAIN a /\ a[k] = None) => (k \in DOMAIN b /\ b[k] = None)
                  /\ (k \in DOMAIN b /\ b[k] # None) => (k \in DOMAIN a /\ a[k] = b[k])
            /\ call.fn = "analyze_and_remove" =>
                  \A i \in DOMAIN call.ret : call.ret[i] # <<"Removing module", "CONFIG_X86_64">>

\* The baseline, in which CONFIG_X86_64 is y, went through the removal of
\* the architecture and industrial categories, which unset CONFIG_INFINIBAND,
\* and the engine analysed the same list.
C11_Witness ==
    /\ categories = Some(<<"Architecture Cleanup", "Industrial Hardware Removal">>)
    /\ history1.ctor = "x86_64_baseline"
    /\ unwrap(before).config_map[ConfigLit["CONFIG_X86_64"]] = Some(ConfigLit["y"])
    /\ config1.config_map[BloatLit["CONFIG_INFINIBAND"]] = None
    /\ BloatLit["CONFIG_INFINIBAND"] \notin DOMAIN unwrap(before).config_map
    /\ call.fn = "analyze_and_remove"
    /\ Len(call.ret) = 8

\* The category names that change nothing: those apply_bloat_removal has
\* no arm for, and the two whose keys the baseline already unsets.
C12_NoOp(category) ==
    \/ category \notin MatchedCategories
    \/ category \in {"Architecture Cleanup", "Legacy Hardware Removal"}

\* C12: apply_bloat_removal with a list made only of unknown names and of
\* "Architecture Cleanup" and "Legacy Hardware Removal" leaves the table as
\* it was (same keys, same states, same emitted text), and for any list the
\* result is the one of the list without its unknown names.
C12_UnknownAndOverlapIgnored ==
    categories # None =>
        LET cats  == unwrap(categories)
            b     == unwrap(before)
            known == SelectSeq(cats, LAMBDA c : c \in MatchedCategories)
        IN  /\ (\A i \in DOMAIN cats : C12_NoOp(cats[i])) =>
                  /\ config1 = b
                  /\ emit(config1) = emit(b)
            /\ config1 = apply_bloat_removal(b, known)

\* A configuration made by KernelConfig::new, in which the caller set
\* CONFIG_X86_64, went through a removal of an unknown category and of
\* "Legacy Hardware Removal".
C12_Witness ==
    /\ categories = Some(<<"Unknown", "Legacy Hardware Removal">>)
    /\ history1.ctor = "new"
    /\ DOMAIN config1.config_map = {ConfigLit["CONFIG_X86_64"]}
    /\ config1 = unwrap(before)

\* The key of a KernelConfig a module name of the engine stands for.
module_key(module) == (BloatLit @@ EngineLit @@ ConfigLit)[module]

\* The modules an engine lists for a category name that are not critical,
\* none for a name it does not list.
ListedModules(engine, name) ==
    UNION {{c.modules[n] : n \in DOMAIN c.modules} \ engine.critical_modules :
              c \in {engine.removable_categories[i] :
                        i \in {j \in DOMAIN engine.removable_categories :
                                  engine.removable_categories[j].name = name}}}

\* The same modules of the engine of BloatRemovalEngine::new, as keys.
C24_Listed(name) == {module_key(m) : m \in ListedModules(BloatRemovalEngine_new, name)}

\* The state of a key in a table: absent, not set, or set to a value.
KeyState(map, k) == IF k \in DOMAIN map THEN map[k] ELSE <<"absent">>

C24_WholeList ==
    {"Industrial Hardware Removal", "Embedded Systems Removal", "Networking Protocols Cleanup"}

RemovedModules(lines) ==
    {lines[i][2] : i \in {j \in DOMAIN lines : lines[j][1] = "Removing module"}}

\* What analyze_and_remove of the engines does, which C26 states: for an
\* engine and a list of selected categories, remove_module takes effect
\* for exactly the modules of the selected categories that are not
\* critical, once for each category of the table that lists them, and it
\* is never asked to remove a critical module: a critical module in the
\* list of a selected category is skipped, the others are removed.
C26_EngineChecksMembership ==
    (categories # None /\ call.fn = "analyze_and_remove") =>
        LET engine   == call.self
            selected == {unwrap(categories)[i] : i \in DOMAIN unwrap(categories)}
            places   == {<<i, n>> \in (DOMAIN engine.removable_categories) \X (1..8) :
                            /\ engine.removable_categories[i].name \in selected
                            /\ n \in DOMAIN engine.removable_categories[i].modules
                            /\ engine.removable_categories[i].modules[n]
                                  \notin engine.critical_modules}
        IN  /\ RemovedModules(call.ret) = UNION {ListedModules(engine, name) : name \in selected}
            /\ RemovedModules(call.ret) \cap engine.critical_modules = {}
            /\ \A i \in DOMAIN call.ret : call.ret[i][1] = "Removing module"
            /\ Len(call.ret) = Cardinality(places)

-----------------------------------------------------------------------------
(* config.rs: KernelConfig::apply_desktop_optimizations and desktop_gaming *)

\* The keys apply_desktop_optimizations sets and unsets, as bytes.
DesktopLit ==
    ("CONFIG_CC_OPTIMIZE_FOR_PERFORMANCE" :> <<"C","O","N","F","I","G","_","C","C","_","O","P","T","I","M","I","Z","E","_","F","O","R","_","P","E","R","F","O","R","M","A","N","C","E">>) @@
    ("CONFIG_HIGH_RES_TIMERS" :> <<"C","O","N","F","I","G","_","H","I","G","H","_","R","E","S","_","T","I","M","E","R","S">>) @@
    ("CONFIG_NO_HZ_FULL" :> <<"C","O","N","F","I","G","_","N","O","_","H","Z","_","F","U","L","L">>) @@
    ("CONFIG_HZ_1000" :> <<"C","O","N","F","I","G","_","H","Z","_","1","0","0","0">>) @@
    ("CONFIG_HZ" :> <<"C","O","N","F","I","G","_","H","Z">>) @@
    ("CONFIG_PREEMPT" :> <<"C","O","N","F","I","G","_","P","R","E","E","M","P","T">>) @@
    ("CONFIG_PREEMPT_COUNT" :> <<"C","O","N","F","I","G","_","P","R","E","E","M","P","T","_","C","O","U","N","T">>) @@
    ("CONFIG_X86_X2APIC" :> <<"C","O","N","F","I","G","_","X","8","6","_","X","2","A","P","I","C">>) @@
    ("CONFIG_X86_TSC" :> <<"C","O","N","F","I","G","_","X","8","6","_","T","S","C">>) @@
    ("CONFIG_FUTEX" :> <<"C","O","N","F","I","G","_","F","U","T","E","X">>) @@
    ("CONFIG_FUTEX2" :> <<"C","O","N","F","I","G","_","F","U","T","E","X","2">>) @@
    ("CONFIG_EMBEDDED" :> <<"C","O","N","F","I","G","_","E","M","B","E","D","D","E","D">>) @@
    ("CONFIG_EXT4_FS" :> <<"C","O","N","F","I","G","_","E","X","T","4","_","F","S">>) @@
    ("CONFIG_BTRFS_FS" :> <<"C","O","N","F","I","G","_","B","T","R","F","S","_","F","S">>) @@
    ("CONFIG_XFS_FS" :> <<"C","O","N","F","I","G","_","X","F","S","_","F","S">>) @@
    ("CONFIG_F2FS_FS" :> <<"C","O","N","F","I","G","_","F","2","F","S","_","F","S">>) @@
    ("CONFIG_VFAT_FS" :> <<"C","O","N","F","I","G","_","V","F","A","T","_","F","S">>) @@
    ("CONFIG_NTFS_FS" :> <<"C","O","N","F","I","G","_","N","T","F","S","_","F","S">>) @@
    ("CONFIG_NTFS3_FS" :> <<"C","O","N","F","I","G","_","N","T","F","S","3","_","F","S">>) @@
    ("CONFIG_REISERFS_FS" :> <<"C","O","N","F","I","G","_","R","E","I","S","E","R","F","S","_","F","S">>) @@
    ("CONFIG_JFS_FS" :> <<"C","O","N","F","I","G","_","J","F","S","_","F","S">>) @@
    ("CONFIG_HFS_FS" :> <<"C","O","N","F","I","G","_","H","F","S","_","F","S">>) @@
    ("CONFIG_HFSPLUS_FS" :> <<"C","O","N","F","I","G","_","H","F","S","P","L","U","S","_","F","S">>)

\* The calls apply_desktop_optimizations makes, in the order it makes them.
apply_desktop_optimizations_calls ==
    <<  <<"set", DesktopLit["CONFIG_CC_OPTIMIZE_FOR_PERFORMANCE"], ConfigLit["y"]>>,
        <<"set", DesktopLit["CONFIG_HIGH_RES_TIMERS"], ConfigLit["y"]>>,
        <<"set", DesktopLit["CONFIG_NO_HZ_FULL"], ConfigLit["y"]>>,
        <<"set", DesktopLit["CONFIG_HZ_1000"], ConfigLit["y"]>>,
        <<"set", DesktopLit["CONFIG_HZ"], ConfigLit["1000"]>>,
        <<"set", DesktopLit["CONFIG_PREEMPT"], ConfigLit["y"]>>,
        <<"set", DesktopLit["CONFIG_PREEMPT_COUNT"], ConfigLit["y"]>>,
        <<"set", DesktopLit["CONFIG_X86_X2APIC"], ConfigLit["y"]>>,
        <<"set", DesktopLit["CONFIG_X86_TSC"], ConfigLit["y"]>>,
        <<"set", DesktopLit["CONFIG_FUTEX"], ConfigLit["y"]>>,
        <<"set", DesktopLit["CONFIG_FUTEX2"], ConfigLit["y"]>>,
        <<"unset", DesktopLit["CONFIG_EMBEDDED"]>>,
        <<"set", DesktopLit["CONFIG_EXT4_FS"], ConfigLit["y"]>>,
        <<"set", DesktopLit["CONFIG_BTRFS_FS"], ConfigLit["y"]>>,
        <<"set", DesktopLit["CONFIG_XFS_FS"], ConfigLit["y"]>>,
        <<"set", DesktopLit["CONFIG_F2FS_FS"], ConfigLit["y"]>>,
        <<"set", DesktopLit["CONFIG_VFAT_FS"], ConfigLit["y"]>>,
        <<"set", DesktopLit["CONFIG_NTFS_FS"], ConfigLit["y"]>>,
        <<"set", DesktopLit["CONFIG_NTFS3_FS"], ConfigLit["y"]>>,
        <<"unset", DesktopLit["CONFIG_REISERFS_FS"]>>,
        <<"unset", DesktopLit["CONFIG_JFS_FS"]>>,
        <<"unset", DesktopLit["CONFIG_HFS_FS"]>>,
        <<"unset", DesktopLit["CONFIG_HFSPLUS_FS"]>>  >>

\* An apply_desktop_optimizations that builds its table from an empty one.
apply_desktop_optimizations_from_new(self) ==
    apply_calls(new(self.seed), apply_desktop_optimizations_calls)

\* KernelConfig::apply_desktop_optimizations
apply_desktop_optimizations(self) == apply_calls(self, apply_desktop_optimizations_calls)

\* The categories desktop_gaming removes.
desktop_gaming_categories ==
    <<"Architecture Cleanup", "Industrial Hardware Removal", "Enterprise Features Removal",
      "Embedded Systems Removal", "Legacy Hardware Removal", "Networking Protocols Cleanup">>

\* KernelConfig::desktop_gaming: three statements, each evaluated before
\* the next one starts.
desktop_gaming(seed) ==
    LET config    == x86_64_baseline(seed)
        optimized == IF config = config THEN apply_desktop_optimizations(config) ELSE config
    IN  IF optimized = optimized
        THEN apply_bloat_removal(optimized, desktop_gaming_categories)
        ELSE optimized

-----------------------------------------------------------------------------
(* Specification SpecLayers: the configuration of x86_64_baseline, on      *)
(* which apply_desktop_optimizations and apply_bloat_removal with any list *)
(* of categories are called in any order and any number of times, or       *)
(* which is replaced by the configuration of desktop_gaming.               *)

InitLayers ==
    /\ config1 = x86_64_baseline(0)
    /\ history1 = history_x86_64_baseline
    /\ config2 = new(0)
    /\ output1 = None
    /\ output2 = None
    /\ BloatIdle
    /\ VersionIdle
    /\ PatchIdle
    /\ PlanIdle
    /\ ToolchainIdle
    /\ CatalogIdle
    /\ ReportIdle

\* config1.apply_desktop_optimizations(), between two category removals
ApplyDesktopOptimizations ==
    /\ categories = None
    /\ config1' = apply_desktop_optimizations(config1)
    /\ history1' = record_calls(history1, apply_desktop_optimizations_calls)
    /\ UNCHANGED <<config2, output1, output2, version_vars, patch_vars,
                 bloat_vars, plan_vars, toolchain_vars, catalog_vars, report_vars>>

\* let config1 = KernelConfig::desktop_gaming()
DesktopGaming ==
    /\ categories = None
    /\ config1' = desktop_gaming(0)
    /\ history1' =
          LET optimized == record_calls(history_x86_64_baseline,
                                        apply_desktop_optimizations_calls)
          IN  IF optimized = optimized
              THEN record_calls(optimized, apply_bloat_removal_calls(desktop_gaming_categories))
              ELSE optimized
    /\ UNCHANGED <<config2, output1, output2, version_vars, patch_vars,
                 bloat_vars, plan_vars, toolchain_vars, catalog_vars, report_vars>>

NextLayers ==
    \/ ApplyDesktopOptimizations
    \/ \E cats \in CategoryLists : ApplyBloatRemoval(cats)
    \/ DropCategories
    \/ DesktopGaming

SpecLayers == InitLayers /\ [][NextLayers]_vars

-----------------------------------------------------------------------------
(* Claims on the layers of a configuration. *)

\* The keys x86_64_baseline unsets: the other architectures and the
\* legacy hardware.
BaselineDisabled ==
    {x86_64_baseline_calls[i][2] :
        i \in {j \in DOMAIN x86_64_baseline_calls : x86_64_baseline_calls[j][1] = "unset"}}

\* C27: in a configuration that began as x86_64_baseline and went through
\* apply_desktop_optimizations and apply_bloat_removal in any order and
\* number, and in the one of desktop_gaming, CONFIG_X86_64 and
\* CONFIG_64BIT are set to y and each of the architecture and legacy keys
\* the baseline unset is still "not set"; no layer wrote any of them.
C27_BaselineGuaranteeKept ==
    /\ Cardinality(BaselineDisabled) = 24
    /\ KeyState(config1.config_map, ConfigLit["CONFIG_X86_64"]) = Some(ConfigLit["y"])
    /\ KeyState(config1.config_map, ConfigLit["CONFIG_64BIT"]) = Some(ConfigLit["y"])
    /\ \A k \in BaselineDisabled : KeyState(config1.config_map, k) = None
    /\ \A k \in BaselineDisabled \cup {ConfigLit["CONFIG_X86_64"], ConfigLit["CONFIG_64BIT"]} :
          k \notin history1.touched

\* The configuration is the one of desktop_gaming, reached by layers: the
\* optimizations were applied and the last removal was that of the
\* networking and industrial categories.
C27_Witness ==
    /\ categories = Some(<<"Networking Protocols Cleanup", "Industrial Hardware Removal">>)
    /\ unwrap(before) # config1
    /\ config1 = desktop_gaming(0)
    /\ KeyState(config1.config_map, DesktopLit["CONFIG_FUTEX"]) = Some(ConfigLit["y"])
    /\ KeyState(config1.config_map, BloatLit["CONFIG_DECNET"]) = None

-----------------------------------------------------------------------------
(* build_plan.rs: BuildPlan, its validation, and BuildPlanBuilder *)

\* Result<(), String>
Ok == <<"Ok">>
Err(e) == <<"Err", e>>
is_err(r) == r[1] = "Err"

\* The mandatory keys ConfigGenerator::validate_config looks for in the
\* options of a version: those test_config_generation_and_validation finds
\* in the baseline of both versions.
mandatory_keys(v) ==
    {"CONFIG_64BIT", "CONFIG_X86_64", "CONFIG_MODULES", "CONFIG_PREEMPT", "CONFIG_HZ_1000"}

\* ConfigGenerator::validate_config: the empty-set check, then the
\* mandatory-key check, each with an error of its own.
validate_config(v, options) ==
    IF Len(options) = 0 THEN Err("EmptyConfig")
    ELSE IF \E k \in mandatory_keys(v) : \A i \in DOMAIN options : options[i].key # k
         THEN Err("MissingMandatoryKey")
         ELSE Ok

\* A validate whose own guard is inverted: it rejects the plans that have
\* configuration options.
BuildPlan_validate_inverted_guard(self) ==
    LET delegated == validate_config(self.version, self.config_options)
    IN  IF is_err(delegated) THEN delegated
        ELSE IF Len(self.config_options) # 0
             THEN Err("Build plan has no configuration options")
             ELSE Ok

\* A validate that does not look at what validate_config returned.
BuildPlan_validate_ignoring_config(self) ==
    IF Len(self.config_options) = 0
    THEN Err("Build plan has no configuration options")
    ELSE Ok

\* A validate without the delegated check of the configuration, which
\* therefore reports an empty configuration itself.
BuildPlan_validate_own_guard_only(self) ==
    IF Len(self.config_options) = 0
    THEN Err("Build plan has no configuration options")
    ELSE validate_config(self.version, self.config_options)

\* BuildPlan::validate
BuildPlan_validate(self) ==
    LET delegated == validate_config(self.version, self.config_options)
    IN  IF is_err(delegated) THEN delegated
        ELSE IF Len(self.config_options) = 0
             THEN Err("Build plan has no configuration options")
             ELSE Ok

\* The guards a call of BuildPlan::validate evaluates, in order: the `?`
\* returns from validate as soon as validate_config gave an error.
BuildPlan_validate_guards(self) ==
    IF is_err(validate_config(self.version, self.config_options))
    THEN <<"validate_config">>
    ELSE <<"validate_config", "config_options.is_empty">>

\* Vec::remove(i) on the options of a plan.
remove(options, i) == SubSeq(options, 1, i - 1) \o SubSeq(options, i + 1, Len(options))

\* KernelVersion::full_name (version.rs)
full_name(self) ==
    IF self = "V6_6_Lts" THEN "Linux Kernel 6.6 LTS" ELSE "Linux Kernel 6.17"

\* The decimal digits `{}` writes for a usize, most significant first.
RECURSIVE fmt_usize(_)
fmt_usize(n) ==
    LET digit == <<"0", "1", "2", "3", "4", "5", "6", "7", "8", "9">>
    IN  IF n < 10 THEN <<digit[n + 1]>>
        ELSE fmt_usize(n \div 10) \o <<digit[(n % 10) + 1]>>

\* The number a run of decimal digits stands for.
RECURSIVE parse_usize(_)
parse_usize(digits) ==
    LET value(d) == CHOOSE k \in 0..9 : fmt_usize(k) = <<d>>
    IN  IF Len(digits) = 0 THEN 0
        ELSE 10 * parse_usize(SubSeq(digits, 1, Len(digits) - 1)) + value(digits[Len(digits)])

\* An external_patches that asks the catalog of the plan's version instead
\* of the plan's own list.
BuildPlan_external_patches_of_catalog(self) ==
    SelectSeq(get_patches_for_version(self.version), LAMBDA p : ~p.is_upstream)

\* BuildPlan::external_patches: the entries of the plan's list that are
\* not upstream, in the order of the list.
BuildPlan_external_patches(self) ==
    SelectSeq(self.patches, LAMBDA p : ~p.is_upstream)

\* A summary that reports the upstream entries as the external ones.
BuildPlan_summary_counting_upstream(self) ==
    [title    |-> <<"Build Plan for ", full_name(self.version)>>,
     patches  |-> <<"- Patches: ", fmt_usize(Len(self.patches)), " total (",
                    fmt_usize(Len(self.patches) - Len(BuildPlan_external_patches(self))),
                    " external)">>,
     config   |-> <<"- Config options: ", fmt_usize(Len(self.config_options))>>,
     compiler |-> <<"- Compiler: ", self.toolchain.compiler>>,
     lto      |-> <<"- LTO: ", self.toolchain.lto>>]

\* BuildPlan::summary: the five lines of the text, each as the literal
\* parts of the format string and the values written between them; the
\* counts are written in decimal, the compiler and the LTO mode with {:?}.
BuildPlan_summary(self) ==
    LET patch_count    == Len(self.patches)
        external_count == Len(BuildPlan_external_patches(self))
        config_count   == Len(self.config_options)
    IN  [title    |-> <<"Build Plan for ", full_name(self.version)>>,
         patches  |-> <<"- Patches: ", fmt_usize(patch_count), " total (",
                        fmt_usize(external_count), " external)">>,
         config   |-> <<"- Config options: ", fmt_usize(config_count)>>,
         compiler |-> <<"- Compiler: ", self.toolchain.compiler>>,
         lto      |-> <<"- LTO: ", self.toolchain.lto>>]

-----------------------------------------------------------------------------
(* Specification SpecValidate: a plan is built with BuildPlan::new for a   *)
(* version, the caller removes options from its public config_options, in  *)
(* any order and down to none, and validates the configuration and the     *)
(* plan at any point.                                                      *)

InitValidate ==
    /\ plan = None
    /\ builder = None
    /\ ops = {}
    /\ version \in KernelVersion
    /\ patch_name = <<>>
    /\ call = IdleCall
    /\ ConfigIdle
    /\ VersionIdle
    /\ BloatIdle
    /\ ToolchainIdle
    /\ CatalogIdle
    /\ ReportIdle

\* let plan = BuildPlan::new(version)
ValidateNew ==
    /\ plan = None
    /\ plan' = Some(BuildPlan_new(version))
    /\ ops' = {"BuildPlan::new"}
    /\ validated' = None
    /\ UNCHANGED <<builder, config_vars, version_vars, patch_vars, bloat_vars,
                 toolchain_vars, catalog_vars, plan_output>>

\* plan.config_options.remove(i - 1); what validate() returned before is
\* not about the plan any more.
RemoveConfigOption(i) ==
    /\ plan # None
    /\ i \in 1..Len(unwrap(plan).config_options)
    /\ plan' = Some([unwrap(plan) EXCEPT !.config_options = remove(@, i)])
    /\ ops' = ops \cup {"config_options.remove"}
    /\ call' = IdleCall
    /\ validated' = None
    /\ UNCHANGED <<builder, version, patch_name, config_vars, version_vars,
                 bloat_vars, toolchain_vars, catalog_vars, plan_output>>

\* let ret = ConfigGenerator::validate_config(plan.version, &plan.config_options)
ValidateConfig ==
    /\ plan # None
    /\ call' = [fn |-> "validate_config",
                ret |-> validate_config(unwrap(plan).version, unwrap(plan).config_options)]
    /\ UNCHANGED <<version, patch_name, config_vars, version_vars, bloat_vars,
                 plan_vars, toolchain_vars, catalog_vars, report_vars>>

\* let ret = plan.validate()
Validate ==
    /\ plan # None
    /\ call' = [fn |-> "validate", ret |-> BuildPlan_validate(unwrap(plan)),
                guards |-> BuildPlan_validate_guards(unwrap(plan))]
    /\ validated' = Some(BuildPlan_validate(unwrap(plan)))
    /\ UNCHANGED <<version, patch_name, config_vars, version_vars, bloat_vars,
                 plan_vars, toolchain_vars, catalog_vars, plan_output>>

NextValidate ==
    \/ ValidateNew
    \/ \E i \in 1..Len(generate_baseline(version)) : RemoveConfigOption(i)
    \/ ValidateConfig
    \/ Validate

SpecValidate == InitValidate /\ [][NextValidate]_vars

-----------------------------------------------------------------------------
(* Specification SpecGate: the plan of SpecValidate, and a caller that     *)
(* takes the summary of the plan at any point, as main of                  *)
(* kernel_version_demo does before it validates anything.  While the       *)
(* caller holds the summary the plan is left alone.                        *)

\* let ret = plan.summary()
Summary ==
    /\ plan # None
    /\ plan_output = IdleCall
    /\ plan_output' = [fn |-> "summary", ret |-> BuildPlan_summary(unwrap(plan))]
    /\ UNCHANGED <<version, patch_name, call, validated, config_vars, version_vars,
                 bloat_vars, plan_vars, toolchain_vars, catalog_vars>>

\* let ret = plan.external_patches()
ExternalPatches ==
    /\ plan # None
    /\ plan_output = IdleCall
    /\ plan_output' = [fn |-> "external_patches",
                       ret |-> BuildPlan_external_patches(unwrap(plan))]
    /\ UNCHANGED <<version, patch_name, call, validated, config_vars, version_vars,
                 bloat_vars, plan_vars, toolchain_vars, catalog_vars>>

\* The caller drops what it took from the plan.
DropOutput ==
    /\ plan_output # IdleCall
    /\ plan_output' = IdleCall
    /\ UNCHANGED <<version, patch_name, call, validated, config_vars, version_vars,
                 bloat_vars, plan_vars, toolchain_vars, catalog_vars>>

NextGate ==
    \/ (plan_output = IdleCall /\ NextValidate)
    \/ Summary
    \/ DropOutput

SpecGate == InitValidate /\ [][NextGate]_vars

-----------------------------------------------------------------------------
(* Claims on the validation of a plan. *)

\* The keys of a list of options.
OptionKeys(options) == {options[i].key : i \in DOMAIN options}

\* The mandatory keys C13 and C14 name.
MandatoryKeys ==
    {"CONFIG_X86_64", "CONFIG_64BIT", "CONFIG_MODULES", "CONFIG_PREEMPT", "CONFIG_HZ_1000"}

C14_ValidationErrors ==
    (plan # None /\ call.fn \in {"validate_config", "validate"}) =>
        LET options == unwrap(plan).config_options
            empty   == Len(options) = 0
            missing == ~(MandatoryKeys \subseteq OptionKeys(options))
        IN  /\ is_err(call.ret) <=> (empty \/ missing)
            /\ ~(empty \/ missing) => call.ret = Ok
            /\ empty => call.ret = Err("EmptyConfig")
            /\ (missing /\ ~empty) => call.ret = Err("MissingMandatoryKey")
            /\ Err("EmptyConfig") # Err("MissingMandatoryKey")

\* A plan whose options lack CONFIG_MODULES only was validated and
\* rejected.
C14_Witness ==
    /\ plan # None
    /\ call.fn = "validate"
    /\ OptionKeys(unwrap(plan).config_options) =
          OptionKeys(generate_baseline("V6_6_Lts")) \ {"CONFIG_MODULES"}
    /\ is_err(call.ret)

\* C15 as stated: validate() of a plan without configuration options
\* returns an error, and its own guard (the one whose error is "Build plan
\* has no configuration options") is evaluated although the delegated
\* validate_config fails too.
C15_BothGuardsEvaluated ==
    (plan # None /\ call.fn = "validate" /\ Len(unwrap(plan).config_options) = 0) =>
        /\ is_err(call.ret)
        /\ \E i \in DOMAIN call.guards : call.guards[i] = "config_options.is_empty"

\* C15 as amended: validate() evaluates validate_config first and returns
\* its error at once; its own guard is evaluated exactly when
\* validate_config returned Ok.  For a plan without configuration options
\* validate() returns the error of validate_config, and its own guard is
\* not evaluated.
C15_DelegatedErrorFirst ==
    (plan # None /\ call.fn = "validate") =>
        LET p         == unwrap(plan)
            delegated == validate_config(p.version, p.config_options)
            own       == \E i \in DOMAIN call.guards : call.guards[i] = "config_options.is_empty"
        IN  /\ call.guards[1] = "validate_config"
            /\ own <=> delegated = Ok
            /\ is_err(delegated) => call.ret = delegated
            /\ Len(p.config_options) = 0 =>
                  /\ is_err(call.ret)
                  /\ call.ret # Err("Build plan has no configuration options")
                  /\ ~own

\* The caller removed every option of the plan and validated it.
C15_Witness ==
    /\ plan # None
    /\ "config_options.remove" \in ops
    /\ Len(unwrap(plan).config_options) = 0
    /\ call.fn = "validate"
    /\ is_err(call.ret)

\* C23 as stated: no output is produced from a plan before validate() has
\* returned Ok on it; the summary a caller holds is the summary of a plan
\* that validate() accepted as it is.
C23_OutputOnlyAfterValidateOk ==
    plan_output.fn = "summary" => validated = Some(Ok)

\* What the code does for C23: summary() has no precondition; it returns
\* the text of whatever plan it is called on, validated or not.
C23_SummaryIsTotal ==
    (plan # None /\ plan_output.fn = "summary") =>
        plan_output.ret = BuildPlan_summary(unwrap(plan))

\* The summary was taken of a plan that validate() had just rejected.
C23_Witness ==
    /\ plan # None
    /\ validated # None
    /\ is_err(unwrap(validated))
    /\ plan_output.fn = "summary"
    /\ plan_output.ret.config = <<"- Config options: ", fmt_usize(Len(unwrap(plan).config_options))>>

-----------------------------------------------------------------------------
(* build_plan.rs: the constructors and setters of BuildPlan and of         *)
(* BuildPlanBuilder                                                        *)

\* A with_patches that looks the catalog up when it is given no patches.
BuildPlan_with_patches_or_catalog(v, patches) ==
    [version |-> v,
     patches |-> IF patches = <<>> THEN get_patches_for_version(v) ELSE patches,
     config_options |-> generate_baseline(v),
     toolchain |-> ToolchainConfig_default]

\* BuildPlan::with_patches
BuildPlan_with_patches(v, patches) ==
    [version |-> v,
     patches |-> patches,
     config_options |-> generate_baseline(v),
     toolchain |-> ToolchainConfig_default]

\* BuildPlan::with_toolchain
BuildPlan_with_toolchain(self, toolchain) == [self EXCEPT !.toolchain = toolchain]

\* A with_thin_lto that also switches the plan to Clang with lld.
BuildPlan_with_thin_lto_on_clang(self) ==
    [self EXCEPT !.toolchain = [compiler |-> "Clang", use_lld |-> TRUE, lto |-> "Thin"]]

\* BuildPlan::with_thin_lto
BuildPlan_with_thin_lto(self) == [self EXCEPT !.toolchain.lto = "Thin"]

\* A with_gcc that leaves the linker choice as it was.
BuildPlan_with_gcc_keeping_lld(self) == [self EXCEPT !.toolchain.compiler = "Gcc"]

\* BuildPlan::with_gcc
BuildPlan_with_gcc(self) ==
    [self EXCEPT !.toolchain.compiler = "Gcc", !.toolchain.use_lld = FALSE]

\* BuildPlanBuilder::new
BuildPlanBuilder_new(v) ==
    [version |-> v, patches |-> None, toolchain |-> ToolchainConfig_default]

\* BuildPlanBuilder::patches
BuildPlanBuilder_patches(self, patches) == [self EXCEPT !.patches = Some(patches)]

\* BuildPlanBuilder::toolchain
BuildPlanBuilder_toolchain(self, toolchain) == [self EXCEPT !.toolchain = toolchain]

\* BuildPlanBuilder::enable_thin_lto
BuildPlanBuilder_enable_thin_lto(self) == [self EXCEPT !.toolchain.lto = "Thin"]

\* BuildPlanBuilder::use_gcc
BuildPlanBuilder_use_gcc(self) ==
    [self EXCEPT !.toolchain.compiler = "Gcc", !.toolchain.use_lld = FALSE]

\* A build that takes no patches when none were set.
BuildPlanBuilder_build_without_fallback(self) ==
    [version |-> self.version,
     patches |-> IF self.patches = None THEN <<>> ELSE unwrap(self.patches),
     config_options |-> generate_baseline(self.version),
     toolchain |-> self.toolchain]

\* A build that turns ThinLTO on when the compiler is Clang, as the plan of
\* toolchain.rs does.
BuildPlanBuilder_build_thin_lto_for_clang(self) ==
    [version |-> self.version,
     patches |-> IF self.patches = None THEN get_patches_for_version(self.version)
                 ELSE unwrap(self.patches),
     config_options |-> generate_baseline(self.version),
     toolchain |-> IF self.toolchain.compiler = "Clang"
                   THEN [self.toolchain EXCEPT !.lto = "Thin"] ELSE self.toolchain]

\* BuildPlanBuilder::build
BuildPlanBuilder_build(self) ==
    [version |-> self.version,
     patches |-> IF self.patches = None THEN get_patches_for_version(self.version)
                 ELSE unwrap(self.patches),
     config_options |-> generate_baseline(self.version),
     toolchain |-> self.toolchain]

-----------------------------------------------------------------------------
(* Specification SpecPlan: for a version, a plan is made by BuildPlan::new *)
(* or BuildPlan::with_patches, or a builder is made, given patches and a   *)
(* toolchain by its setters in any order and built; the plan then goes     *)
(* through with_toolchain, with_thin_lto and with_gcc in any order.  ops   *)
(* holds the names of the calls made so far, call the constructor call.    *)

Compiler == {"Clang", "Gcc"}
LtoMode == {"None", "Thin", "Full"}

\* The toolchain configurations a caller supplies.
ToolchainConfigs == [compiler : Compiler, use_lld : BOOLEAN, lto : LtoMode]

\* The patch lists a caller supplies: none, a catalog, the external part of
\* one, and a patch that is in no catalog.
PatchLists ==
    {<<>>, get_v6_6_patches, get_v6_17_patches, get_external_patches("V6_6_Lts"),
     <<Patch(PatchLit["PREEMPT_RT_FULL"], "Full real-time preemption", "local", FALSE)>>}

InitPlan ==
    /\ plan = None
    /\ builder = None
    /\ ops = {}
    /\ version \in KernelVersion
    /\ patch_name = <<>>
    /\ call = IdleCall
    /\ ConfigIdle
    /\ VersionIdle
    /\ BloatIdle
    /\ ToolchainIdle
    /\ CatalogIdle
    /\ ReportIdle

\* let plan = BuildPlan::new(version)
New ==
    /\ plan = None /\ builder = None
    /\ plan' = Some(BuildPlan_new(version))
    /\ ops' = {"BuildPlan::new"}
    /\ call' = [fn |-> "BuildPlan::new", args |-> <<version>>, ret |-> None]
    /\ UNCHANGED <<builder, version, patch_name, config_vars, version_vars,
                 bloat_vars, toolchain_vars, catalog_vars, report_vars>>

\* let plan = BuildPlan::with_patches(version, patches)
WithPatches(patches) ==
    /\ plan = None /\ builder = None
    /\ plan' = Some(BuildPlan_with_patches(version, patches))
    /\ ops' = {"BuildPlan::with_patches"}
    /\ call' = [fn |-> "BuildPlan::with_patches", args |-> <<version, patches>>, ret |-> None]
    /\ UNCHANGED <<builder, version, patch_name, config_vars, version_vars,
                 bloat_vars, toolchain_vars, catalog_vars, report_vars>>

\* let plan = plan.with_toolchain(toolchain)
WithToolchain(toolchain) ==
    /\ plan # None
    /\ plan' = Some(BuildPlan_with_toolchain(unwrap(plan), toolchain))
    /\ ops' = ops \cup {"with_toolchain"}
    /\ UNCHANGED <<builder, config_vars, version_vars, patch_vars, bloat_vars, toolchain_vars, catalog_vars, report_vars>>

\* let plan = plan.with_thin_lto()
WithThinLto ==
    /\ plan # None
    /\ plan' = Some(BuildPlan_with_thin_lto(unwrap(plan)))
    /\ ops' = ops \cup {"with_thin_lto"}
    /\ UNCHANGED <<builder, config_vars, version_vars, patch_vars, bloat_vars, toolchain_vars, catalog_vars, report_vars>>

\* let plan = plan.with_gcc()
WithGcc ==
    /\ plan # None
    /\ plan' = Some(BuildPlan_with_gcc(unwrap(plan)))
    /\ ops' = ops \cup {"with_gcc"}
    /\ UNCHANGED <<builder, config_vars, version_vars, patch_vars, bloat_vars, toolchain_vars, catalog_vars, report_vars>>

\* let builder = BuildPlanBuilder::new(version)
BuilderNew ==
    /\ plan = None /\ builder = None
    /\ builder' = Some(BuildPlanBuilder_new(version))
    /\ ops' = {"BuildPlanBuilder::new"}
    /\ call' = [fn |-> "BuildPlanBuilder::new", args |-> <<version>>, ret |-> None]
    /\ UNCHANGED <<plan, version, patch_name, config_vars, version_vars,
                 bloat_vars, toolchain_vars, catalog_vars, report_vars>>

\* let builder = builder.patches(patches)
BuilderPatches(patches) ==
    /\ builder # None
    /\ builder' = Some(BuildPlanBuilder_patches(unwrap(builder), patches))
    /\ ops' = ops \cup {"patches"}
    /\ UNCHANGED <<plan, config_vars, version_vars, patch_vars, bloat_vars, toolchain_vars, catalog_vars, report_vars>>

\* let builder = builder.toolchain(toolchain)
BuilderToolchain(toolchain) ==
    /\ builder # None
    /\ builder' = Some(BuildPlanBuilder_toolchain(unwrap(builder), toolchain))
    /\ ops' = ops \cup {"toolchain"}
    /\ UNCHANGED <<plan, config_vars, version_vars, patch_vars, bloat_vars, toolchain_vars, catalog_vars, report_vars>>

\* let builder = builder.enable_thin_lto()
BuilderEnableThinLto ==
    /\ builder # None
    /\ builder' = Some(BuildPlanBuilder_enable_thin_lto(unwrap(builder)))
    /\ ops' = ops \cup {"enable_thin_lto"}
    /\ UNCHANGED <<plan, config_vars, version_vars, patch_vars, bloat_vars, toolchain_vars, catalog_vars, report_vars>>

\* let builder = builder.use_gcc()
BuilderUseGcc ==
    /\ builder # None
    /\ builder' = Some(BuildPlanBuilder_use_gcc(unwrap(builder)))
    /\ ops' = ops \cup {"use_gcc"}
    /\ UNCHANGED <<plan, config_vars, version_vars, patch_vars, bloat_vars, toolchain_vars, catalog_vars, report_vars>>

\* let plan = builder.build(), which consumes the builder
BuilderBuild ==
    /\ builder # None
    /\ plan' = Some(BuildPlanBuilder_build(unwrap(builder)))
    /\ builder' = None
    /\ ops' = ops \cup {"build"}
    /\ UNCHANGED <<config_vars, version_vars, patch_vars, bloat_vars, toolchain_vars, catalog_vars, report_vars>>

NextPlan ==
    \/ New
    \/ \E patches \in PatchLists : WithPatches(patches)
    \/ \E toolchain \in ToolchainConfigs : WithToolchain(toolchain)
    \/ WithThinLto
    \/ WithGcc
    \/ BuilderNew
    \/ \E patches \in PatchLists : BuilderPatches(patches)
    \/ \E toolchain \in ToolchainConfigs : BuilderToolchain(toolchain)
    \/ BuilderEnableThinLto
    \/ BuilderUseGcc
    \/ BuilderBuild

SpecPlan == InitPlan /\ [][NextPlan]_vars

-----------------------------------------------------------------------------
(* Specification SpecOutput: the plans of SpecPlan, and a caller that      *)
(* takes the external patches or the summary of the plan at any point.     *)
(* While the caller holds what it took, plan and builder are left alone.   *)

NextOutput ==
    \/ (plan_output = IdleCall /\ NextPlan)
    \/ ExternalPatches
    \/ Summary
    \/ DropOutput

SpecOutput == InitPlan /\ [][NextOutput]_vars

-----------------------------------------------------------------------------
(* Claims on the build plan and its builder. *)

\* The default toolchain C16 and C18 state.
DefaultToolchain == [compiler |-> "Clang", use_lld |-> TRUE, lto |-> "None"]

\* C16: BuildPlan::new(v) has version v, the catalog of v as patches, the
\* baseline of v as configuration and the default toolchain;
\* BuildPlan::with_patches(v, P) has exactly P as patches, the empty list
\* included, with the version, configuration and toolchain of new(v), and
\* no later call on the plan changes its patches.
C16_NewAndWithPatches ==
    plan # None =>
        LET p == unwrap(plan)
        IN  /\ ops = {"BuildPlan::new"} =>
                  /\ p.version = call.args[1]
                  /\ p.patches = get_patches_for_version(call.args[1])
                  /\ p.config_options = generate_baseline(call.args[1])
                  /\ p.toolchain = DefaultToolchain
            /\ ops = {"BuildPlan::with_patches"} =>
                  /\ p.version = call.args[1]
                  /\ p.patches = call.args[2]
                  /\ p.config_options = generate_baseline(call.args[1])
                  /\ p.toolchain = DefaultToolchain
            /\ "BuildPlan::with_patches" \in ops => p.patches = call.args[2]

\* BuildPlan::with_patches was given the empty list for 6.6 LTS, whose
\* catalog is not empty.
C16_Witness ==
    /\ plan # None
    /\ ops = {"BuildPlan::with_patches"}
    /\ call.args = <<"V6_6_Lts", <<>>>>
    /\ unwrap(plan).patches = <<>>

\* C17: the plan a builder builds with no setter called is the plan of
\* BuildPlan::new for the same version (patches, configuration, toolchain);
\* and whatever other setters were called, a plan built by a builder on
\* which patches() was not called has the catalog of the version as
\* patches, which is not empty.
C17_BuilderDefaults ==
    (plan # None /\ "build" \in ops) =>
        LET p == unwrap(plan)
        IN  /\ ops = {"BuildPlanBuilder::new", "build"} =>
                  /\ p = BuildPlan_new(call.args[1])
                  /\ p.patches = get_patches_for_version(p.version)
                  /\ p.toolchain = DefaultToolchain
            /\ "patches" \notin ops =>
                  /\ p.patches = get_patches_for_version(call.args[1])
                  /\ p.patches # <<>>

\* A builder for 6.17 on which use_gcc and enable_thin_lto were called, and
\* not patches, was built.
C17_Witness ==
    /\ plan # None
    /\ ops = {"BuildPlanBuilder::new", "use_gcc", "enable_thin_lto", "build"}
    /\ unwrap(plan).version = "V6_17"
    /\ Len(unwrap(plan).patches) = 3

\* The calls that turn LTO on or hand in a toolchain configuration.
C18_LtoCalls == {"with_thin_lto", "enable_thin_lto", "with_toolchain", "toolchain"}

\* C18: the default toolchain configuration is Clang with lld and LTO mode
\* None, and a plan or builder made by calls among which there is neither
\* with_thin_lto, enable_thin_lto nor a call that hands in a toolchain
\* configuration has LTO mode None.
C18_LtoOptIn ==
    /\ ToolchainConfig_default = DefaultToolchain
    /\ (plan # None /\ ops \cap C18_LtoCalls = {}) => unwrap(plan).toolchain.lto = "None"
    /\ (builder # None /\ ops \cap C18_LtoCalls = {}) => unwrap(builder).toolchain.lto = "None"

\* A builder was given patches and GCC and built, and with_gcc was called
\* on the plan.
C18_Witness ==
    /\ plan # None
    /\ ops = {"BuildPlanBuilder::new", "patches", "use_gcc", "build", "with_gcc"}
    /\ unwrap(plan).toolchain = [compiler |-> "Gcc", use_lld |-> FALSE, lto |-> "None"]

\* The positions of a patch list whose entry is not upstream.
ExternalPositions(patches) == {j \in DOMAIN patches : ~patches[j].is_upstream}

\* C25: external_patches() of a plan is the list of the entries of
\* plan.patches that are not upstream, each at the place its rank among
\* them gives it, whatever the catalog of the plan's version holds; the
\* counts summary() writes are the length of plan.patches and the number
\* of those entries, and the second is at most the first.
C25_ExternalPatchesOfPlan ==
    plan # None =>
        LET patches  == unwrap(plan).patches
            external == ExternalPositions(patches)
        IN  /\ plan_output.fn = "external_patches" =>
                  /\ Len(plan_output.ret) = Cardinality(external)
                  /\ \A j \in external :
                        plan_output.ret[Cardinality({k \in external : k <= j})] = patches[j]
            /\ plan_output.fn = "summary" =>
                  LET total    == parse_usize(plan_output.ret.patches[2])
                      reported == parse_usize(plan_output.ret.patches[4])
                  IN  /\ total = Len(patches)
                      /\ reported = Cardinality(external)
                      /\ reported <= total

\* external_patches() was taken of a plan for 6.17 that was given the
\* catalog of 6.6 LTS, whose external entries are not those of 6.17.
C25_Witness ==
    /\ plan # None
    /\ unwrap(plan).version = "V6_17"
    /\ unwrap(plan).patches = get_v6_6_patches
    /\ plan_output.fn = "external_patches"
    /\ plan_output.ret # <<>>
    /\ plan_output.ret # unwrap(plan).patches
    /\ plan_output.ret # get_external_patches("V6_17")

\* The calls that hand in a toolchain configuration of the caller.
C28_SuppliedCalls == {"with_toolchain", "toolchain"}

\* C28 as stated: in a plan or builder made without a toolchain
\* configuration of the caller, GCC is never paired with lld and an LTO
\* mode other than None is only paired with Clang.
C28_ConsistentToolchain ==
    LET consistent(t) == /\ t.compiler = "Gcc" => ~t.use_lld
                         /\ t.lto # "None" => t.compiler = "Clang"
    IN  ops \cap C28_SuppliedCalls = {} =>
            /\ plan # None => consistent(unwrap(plan).toolchain)
            /\ builder # None => consistent(unwrap(builder).toolchain)

\* What holds of C28: in a plan or builder made without a toolchain
\* configuration of the caller, GCC is never paired with lld, and the LTO
\* mode is None or Thin.
C28_GccWithoutLld ==
    LET holds(t) == /\ t.compiler = "Gcc" => ~t.use_lld
                    /\ t.lto \in {"None", "Thin"}
    IN  ops \cap C28_SuppliedCalls = {} =>
            /\ plan # None => holds(unwrap(plan).toolchain)
            /\ builder # None => holds(unwrap(builder).toolchain)

\* with_gcc and with_thin_lto were called on the plan of BuildPlan::new:
\* the plan pairs GCC with ThinLTO.
C28_Witness ==
    /\ plan # None
    /\ ops = {"BuildPlan::new", "with_gcc", "with_thin_lto"}
    /\ unwrap(plan).toolchain = [compiler |-> "Gcc", use_lld |-> FALSE, lto |-> "Thin"]

\* C29: a step of with_toolchain, with_thin_lto or with_gcc leaves the
\* version, patches and config_options of the plan as they were, and a
\* step of the builder's toolchain, enable_thin_lto or use_gcc the version
\* and patches of the builder; the ThinLTO calls leave compiler and
\* use_lld, the GCC calls the LTO mode; build takes version, patches and
\* toolchain from the builder; and the configuration of every plan is the
\* baseline of its version, whatever its toolchain.
C29_OnlyToolchainChanges ==
    /\ [](plan # None =>
             unwrap(plan).config_options = generate_baseline(unwrap(plan).version))
    /\ [][LET p == unwrap(plan)
              q == unwrap(plan')
              b == unwrap(builder)
              c == unwrap(builder')
          IN  /\ ((\E t \in ToolchainConfigs : WithToolchain(t)) \/ WithThinLto \/ WithGcc) =>
                    /\ q.version = p.version
                    /\ q.patches = p.patches
                    /\ q.config_options = p.config_options
              /\ WithThinLto =>
                    /\ q.toolchain.compiler = p.toolchain.compiler
                    /\ q.toolchain.use_lld = p.toolchain.use_lld
              /\ WithGcc => q.toolchain.lto = p.toolchain.lto
              /\ ((\E t \in ToolchainConfigs : BuilderToolchain(t))
                    \/ BuilderEnableThinLto \/ BuilderUseGcc) =>
                    /\ c.version = b.version
                    /\ c.patches = b.patches
              /\ BuilderEnableThinLto =>
                    /\ c.toolchain.compiler = b.toolchain.compiler
                    /\ c.toolchain.use_lld = b.toolchain.use_lld
              /\ BuilderUseGcc => c.toolchain.lto = b.toolchain.lto
              /\ BuilderBuild =>
                    /\ q.version = b.version
                    /\ q.toolchain = b.toolchain
                    /\ b.patches # None => q.patches = unwrap(b.patches)
                    /\ q.config_options = generate_baseline(b.version)]_vars

\* A builder for 6.6 LTS was given patches and a toolchain, ThinLTO and
\* GCC, and all three toolchain operations were called on the plan built.
C29_Witness ==
    /\ plan # None
    /\ ops = {"BuildPlanBuilder::new", "patches", "toolchain", "enable_thin_lto", "use_gcc",
              "build", "with_toolchain", "with_thin_lto", "with_gcc"}
    /\ unwrap(plan).version = "V6_6_Lts"
    /\ unwrap(plan).patches = get_v6_17_patches
    /\ unwrap(plan).toolchain.compiler = "Gcc"
    /\ unwrap(plan).config_options = generate_baseline("V6_6_Lts")

-----------------------------------------------------------------------------
(* core/toolchain.rs: the plan derived from a toolchain and the detection  *)
(* of the toolchain.  The detector runs `clang --version`, `ld.lld         *)
(* --version` and `gcc --version`; what each of the three launches gives   *)
(* is the environment, held in path: None when the process could not be    *)
(* spawned, otherwise its exit status and standard output.  The detector   *)
(* is the one of ToolchainDetector::new (custom_path None).                *)

ToolLit ==
    ("clang version 14.0.0\nTarget: x86_64-pc-linux-gnu" :> <<"c","l","a","n","g"," ","v","e","r","s","i","o","n"," ","1","4",".","0",".","0","\n","T","a","r","g","e","t",":"," ","x","8","6","_","6","4","-","p","c","-","l","i","n","u","x","-","g","n","u">>) @@
    ("gcc (GCC) 11.3.0" :> <<"g","c","c"," ","(","G","C","C",")"," ","1","1",".","3",".","0">>) @@
    ("gcc (GCC)\n11.3.0" :> <<"g","c","c"," ","(","G","C","C",")","\n","1","1",".","3",".","0">>) @@
    ("LLD 14.0.0" :> <<"L","L","D"," ","1","4",".","0",".","0">>) @@
    ("14.0.0" :> <<"1","4",".","0",".","0">>) @@
    ("11.3.0" :> <<"1","1",".","3",".","0">>) @@
    ("unknown" :> <<"u","n","k","n","o","w","n">>) @@
    ("" :> <<>>)

OkOf(x) == <<"Ok", x>>
is_ok(r) == r[1] = "Ok"

Clang(v) == [name |-> "clang", version |-> v]
Gcc(v) == [name |-> "gcc", version |-> v]

\* BuildPlan::new with ThinLTO and LLVM=1 for every toolchain.
toolchain_BuildPlan_new_lto_for_gcc(toolchain) ==
    [toolchain |-> toolchain,
     lto |-> "ThinLto",
     make_flags |-> <<"LLVM=1">>,
     kconfig_options |-> << <<"CONFIG_LTO_CLANG_THIN", "y">>,
                            <<"CONFIG_CC_OPTIMIZE_FOR_PERFORMANCE", "y">> >>]

\* BuildPlan::new of toolchain.rs: the match is on the variant alone.
toolchain_BuildPlan_new(toolchain) ==
    IF toolchain.name = "clang"
    THEN [toolchain |-> toolchain,
          lto |-> "ThinLto",
          make_flags |-> <<"LLVM=1">>,
          kconfig_options |-> << <<"CONFIG_LTO_CLANG_THIN", "y">>,
                                 <<"CONFIG_CC_OPTIMIZE_FOR_PERFORMANCE", "y">> >>]
    ELSE [toolchain |-> toolchain,
          lto |-> "None",
          make_flags |-> <<>>,
          kconfig_options |-> << <<"CONFIG_CC_OPTIMIZE_FOR_PERFORMANCE", "y">> >>]

make_command(self) == <<"make">> \o self.make_flags

is_ascii_digit(c) == c \in {"0", "1", "2", "3", "4", "5", "6", "7", "8", "9"}

\* stdout.lines().next().unwrap_or("")
RECURSIVE first_line_from(_, _)
first_line_from(s, i) ==
    IF i > Len(s) \/ s[i] = "\n" THEN SubSeq(s, 1, i - 1)
    ELSE first_line_from(s, i + 1)

first_line(stdout) == first_line_from(stdout, 1)

\* str::split_whitespace: the maximal runs of non-whitespace, in order.
RECURSIVE split_whitespace_from(_, _, _)
split_whitespace_from(s, i, tok) ==
    IF i > Len(s) THEN (IF tok = <<>> THEN <<>> ELSE <<tok>>)
    ELSE IF is_whitespace(s[i])
         THEN (IF tok = <<>> THEN <<>> ELSE <<tok>>) \o split_whitespace_from(s, i + 1, <<>>)
         ELSE split_whitespace_from(s, i + 1, Append(tok, s[i]))

split_whitespace(s) == split_whitespace_from(s, 1, <<>>)

\* get_command_version: an error when the launch failed or the status is
\* not success; otherwise the first token of the first line that starts
\* with a digit, or "unknown".
get_command_version(env, cmd) ==
    LET output == env[cmd]
    IN  IF is_none(output) THEN Err("spawn")
        ELSE IF ~unwrap(output).success THEN Err("not found or not working")
        ELSE LET tokens == split_whitespace(first_line(unwrap(output).stdout))
                 found == {i \in 1..Len(tokens) : is_ascii_digit(tokens[i][1])}
             IN  IF found = {} THEN OkOf(ToolLit["unknown"])
                 ELSE OkOf(tokens[CHOOSE i \in found : \A j \in found : i <= j])

detect_clang(env) ==
    LET v == get_command_version(env, "clang")
    IN  IF is_err(v) THEN v ELSE OkOf(Clang(v[2]))

detect_gcc(env) ==
    LET v == get_command_version(env, "gcc")
    IN  IF is_err(v) THEN v ELSE OkOf(Gcc(v[2]))

\* check_command_exists("ld.lld"): output().map(success).unwrap_or(false)
has_lld(env) == is_some(env["lld"]) /\ unwrap(env["lld"]).success

\* detect that does not ask for ld.lld.
detect_without_lld(env) ==
    IF is_ok(detect_clang(env)) THEN detect_clang(env)
    ELSE IF is_err(detect_gcc(env)) THEN Err("No suitable toolchain found")
    ELSE detect_gcc(env)

detect(env) ==
    IF is_ok(detect_clang(env)) /\ has_lld(env) THEN detect_clang(env)
    ELSE IF is_err(detect_gcc(env)) THEN Err("No suitable toolchain found")
    ELSE detect_gcc(env)

create_build_plan(env) ==
    LET toolchain == detect(env)
    IN  IF is_err(toolchain) THEN toolchain
        ELSE OkOf(toolchain_BuildPlan_new(toolchain[2]))

\* What launching a command can give.
Outputs(stdouts) ==
    {None, Some([success |-> FALSE, stdout |-> <<>>])}
    \cup {Some([success |-> TRUE, stdout |-> ToolLit[s]]) : s \in stdouts}

Environments ==
    [clang : Outputs({"clang version 14.0.0\nTarget: x86_64-pc-linux-gnu", ""}),
     lld   : Outputs({"LLD 14.0.0"}),
     gcc   : Outputs({"gcc (GCC) 11.3.0", "gcc (GCC)\n11.3.0"})]

\* The toolchains the tests construct directly, and two more versions.
Toolchains ==
    {Clang(ToolLit[v]) : v \in {"14.0.0", "11.3.0", "unknown", ""}}
    \cup {Gcc(ToolLit[v]) : v \in {"14.0.0", "11.3.0", "unknown", ""}}

InitToolchain ==
    /\ ConfigIdle /\ VersionIdle /\ PatchIdle /\ BloatIdle /\ PlanIdle
    /\ CatalogIdle
    /\ ReportIdle
    /\ path \in Environments
    /\ toolchain_plan = IdleCall

ToolchainNew(toolchain) ==
    /\ toolchain_plan' = [fn |-> "BuildPlan::new", arg |-> toolchain,
                          ret |-> toolchain_BuildPlan_new(toolchain)]
    /\ UNCHANGED <<config_vars, version_vars, patch_vars, bloat_vars, plan_vars, path, catalog_vars, report_vars>>

MakeCommand ==
    /\ toolchain_plan.fn \in {"BuildPlan::new", "create_build_plan"}
    /\ toolchain_plan.fn = "create_build_plan" => is_ok(toolchain_plan.ret)
    /\ LET self == IF toolchain_plan.fn = "BuildPlan::new" THEN toolchain_plan.ret
                   ELSE toolchain_plan.ret[2]
       IN  toolchain_plan' = [fn |-> "make_command", arg |-> self,
                              ret |-> make_command(self)]
    /\ UNCHANGED <<config_vars, version_vars, patch_vars, bloat_vars, plan_vars, path, catalog_vars, report_vars>>

Detect ==
    /\ toolchain_plan' = [fn |-> "detect", ret |-> detect(path)]
    /\ UNCHANGED <<config_vars, version_vars, patch_vars, bloat_vars, plan_vars, path, catalog_vars, report_vars>>

CreateBuildPlan ==
    /\ toolchain_plan' = [fn |-> "create_build_plan", ret |-> create_build_plan(path)]
    /\ UNCHANGED <<config_vars, version_vars, patch_vars, bloat_vars, plan_vars, path, catalog_vars, report_vars>>

NextToolchain ==
    \/ \E toolchain \in Toolchains : ToolchainNew(toolchain)
    \/ MakeCommand
    \/ Detect
    \/ CreateBuildPlan

SpecToolchain == InitToolchain /\ [][NextToolchain]_vars

\* C19: BuildPlan::new of toolchain.rs looks at the compiler alone.  For
\* Clang of any version: ThinLto, LLVM=1 among the make flags,
\* CONFIG_LTO_CLANG_THIN=y and CONFIG_CC_OPTIMIZE_FOR_PERFORMANCE=y among
\* the options.  For GCC of any version: no LTO, no LLVM=1, and
\* CONFIG_CC_OPTIMIZE_FOR_PERFORMANCE=y as the only option.  Two toolchains
\* of the same compiler give plans that differ in the toolchain only, and
\* make_command is "make" followed by the make flags, in order.
C19_KeyedByCompiler ==
    /\ toolchain_plan.fn = "BuildPlan::new" =>
          LET t == toolchain_plan.arg
              p == toolchain_plan.ret
              InSeqOf(s) == {s[i] : i \in 1..Len(s)}
          IN  /\ p.toolchain = t
              /\ t.name = "clang" =>
                    /\ p.lto = "ThinLto"
                    /\ "LLVM=1" \in InSeqOf(p.make_flags)
                    /\ <<"CONFIG_LTO_CLANG_THIN", "y">> \in InSeqOf(p.kconfig_options)
                    /\ <<"CONFIG_CC_OPTIMIZE_FOR_PERFORMANCE", "y">> \in InSeqOf(p.kconfig_options)
              /\ t.name = "gcc" =>
                    /\ p.lto = "None"
                    /\ "LLVM=1" \notin InSeqOf(p.make_flags)
                    /\ \A o \in InSeqOf(p.kconfig_options) : o[1] # "CONFIG_LTO_CLANG_THIN"
                    /\ p.kconfig_options = << <<"CONFIG_CC_OPTIMIZE_FOR_PERFORMANCE", "y">> >>
              /\ \A u \in Toolchains :
                    u.name = t.name =>
                       [toolchain_BuildPlan_new(u) EXCEPT !.toolchain = t] = p
    /\ toolchain_plan.fn = "make_command" =>
          LET flags == toolchain_plan.arg.make_flags
              cmd == toolchain_plan.ret
          IN  /\ Len(cmd) = 1 + Len(flags)
              /\ cmd[1] = "make"
              /\ \A i \in 1..Len(flags) : cmd[i + 1] = flags[i]

\* make_command was called on the plan of a GCC whose version string is the
\* one the tests give Clang, and gave "make" alone.
C19_Witness ==
    /\ toolchain_plan.fn = "make_command"
    /\ toolchain_plan.arg.toolchain = Gcc(ToolLit["14.0.0"])
    /\ toolchain_plan.arg.lto = "None"
    /\ toolchain_plan.ret = <<"make">>

\* A command is usable when it could be launched and exited with success.
C20_Usable(cmd) == is_some(path[cmd]) /\ unwrap(path[cmd]).success

\* C20: detect returns Clang when clang and ld.lld are both usable, whatever
\* gcc is; otherwise Gcc when gcc is usable; otherwise an error.
\* create_build_plan returns an error exactly when detect does, and
\* otherwise the plan BuildPlan::new makes of the detected toolchain.
C20_DetectionOrder ==
    /\ toolchain_plan.fn = "detect" =>
          LET r == toolchain_plan.ret
          IN  IF C20_Usable("clang") /\ C20_Usable("lld")
              THEN is_ok(r) /\ r[2].name = "clang"
              ELSE IF C20_Usable("gcc")
                   THEN is_ok(r) /\ r[2].name = "gcc"
                   ELSE is_err(r)
    /\ toolchain_plan.fn = "create_build_plan" =>
          LET r == toolchain_plan.ret
          IN  /\ is_err(r) <=> is_err(detect(path))
              /\ is_err(r) <=> /\ ~(C20_Usable("clang") /\ C20_Usable("lld"))
                               /\ ~C20_Usable("gcc")
              /\ is_ok(r) =>
                    /\ r[2].toolchain = detect(path)[2]
                    /\ r[2] = toolchain_BuildPlan_new(r[2].toolchain)
                    /\ r[2].toolchain.name =
                          IF C20_Usable("clang") /\ C20_Usable("lld") THEN "clang" ELSE "gcc"

\* clang and gcc are usable and ld.lld could not be launched, and
\* create_build_plan gave the plan of GCC.
C20_Witness ==
    /\ toolchain_plan.fn = "create_build_plan"
    /\ C20_Usable("clang")
    /\ path["lld"] = None
    /\ C20_Usable("gcc")
    /\ is_ok(toolchain_plan.ret)
    /\ toolchain_plan.ret[2].toolchain = Gcc(ToolLit["11.3.0"])
    /\ toolchain_plan.ret[2].lto = "None"

-----------------------------------------------------------------------------
(* core/version_catalog.rs: the versions kernel.org lists, cached in       *)
(* versions.json for 24 hours, with a built-in list when the request       *)
(* fails.  The clock, the answer of kernel.org, the cache directory and    *)
(* the cache file are the environment.  The clock counts units of 12       *)
(* hours and, like SystemTime, may be set back.  The environment changes   *)
(* between two calls.                                                      *)

CatalogLit ==
    ("6.6.0" :> <<"6",".","6",".","0">>) @@
    ("6.7.0" :> <<"6",".","7",".","0">>) @@
    ("6.8.0" :> <<"6",".","8",".","0">>) @@
    ("6.9.0" :> <<"6",".","9",".","0">>) @@
    ("6.10.0" :> <<"6",".","1","0",".","0">>) @@
    ("6.11.0" :> <<"6",".","1","1",".","0">>) @@
    ("6.12.0" :> <<"6",".","1","2",".","0">>) @@
    ("6.13.0" :> <<"6",".","1","3",".","0">>) @@
    ("6.14.0" :> <<"6",".","1","4",".","0">>) @@
    ("6.15.0" :> <<"6",".","1","5",".","0">>) @@
    ("6.16.0" :> <<"6",".","1","6",".","0">>) @@
    ("6.17.0" :> <<"6",".","1","7",".","0">>) @@
    ("6.18-rc4" :> <<"6",".","1","8","-","r","c","4">>) @@
    ("6.17.7" :> <<"6",".","1","7",".","7">>) @@
    ("6.6.116" :> <<"6",".","6",".","1","1","6">>) @@
    ("next-20251103" :> <<"n","e","x","t","-","2","0","2","5","1","1","0","3">>) @@
    ("6.6" :> <<"6",".","6">>) @@
    ("6.17" :> <<"6",".","1","7">>)


\* CACHE_TTL, 24 hours, in units of 12 hours.
CACHE_TTL == 2

\* The latest time the clock shows.
MaxClock == 4

is_numeric_identifier(s) ==
    /\ Len(s) > 0
    /\ \A i \in 1..Len(s) : is_ascii_digit(s[i])
    /\ Len(s) > 1 => s[1] # "0"

\* The positions of c in s.
positions(s, c) == {i \in 1..Len(s) : s[i] = c}

first_of(S) == CHOOSE i \in S : \A j \in S : i <= j

\* semver::Version::parse: MAJOR.MINOR.PATCH, each a number without leading
\* zeros, then an optional non-empty pre-release after "-" or build after
\* "+"; anything else is an error.
Version_parse(s) ==
    LET dots == positions(s, ".")
    IN  IF dots = {} THEN Err("UnexpectedEnd")
        ELSE LET d1 == first_of(dots)
                 later == {i \in dots : i > d1}
             IN  IF later = {} THEN Err("UnexpectedEnd")
                 ELSE LET d2   == first_of(later)
                          rest == SubSeq(s, d2 + 1, Len(s))
                          cut  == {i \in 1..Len(rest) : rest[i] \in {"-", "+"}}
                          n    == IF cut = {} THEN Len(rest) ELSE first_of(cut) - 1
                          major == SubSeq(s, 1, d1 - 1)
                          minor == SubSeq(s, d1 + 1, d2 - 1)
                          patch == SubSeq(rest, 1, n)
                          pre   == SubSeq(rest, n + 2, Len(rest))
                      IN  IF /\ is_numeric_identifier(major)
                             /\ is_numeric_identifier(minor)
                             /\ is_numeric_identifier(patch)
                             /\ cut # {} => Len(pre) > 0
                          THEN OkOf([major |-> major, minor |-> minor,
                                     patch |-> patch, pre |-> pre])
                          ELSE Err("UnexpectedChar")

\* Result::ok
ok(r) == IF is_ok(r) THEN Some(r[2]) ELSE None

\* One entry of get_fallback_versions.
fallback_version(v, channel, released) ==
    [version  |-> CatalogLit[v],
     semver   |-> ok(Version_parse(CatalogLit[v])),
     channel  |-> channel,
     released |-> Some(released),
     eol      |-> FALSE]

get_fallback_versions ==
    << fallback_version("6.6.0", "longterm", "2023-10-29"),
       fallback_version("6.7.0", "stable", "2024-01-07"),
       fallback_version("6.8.0", "stable", "2024-03-10"),
       fallback_version("6.9.0", "stable", "2024-05-12"),
       fallback_version("6.10.0", "stable", "2024-07-14"),
       fallback_version("6.11.0", "stable", "2024-09-15"),
       fallback_version("6.12.0", "stable", "2024-11-17"),
       fallback_version("6.13.0", "mainline", "2025-01-19"),
       fallback_version("6.14.0", "mainline", "2025-03-23"),
       fallback_version("6.15.0", "mainline", "2025-05-25"),
       fallback_version("6.16.0", "mainline", "2025-07-27"),
       fallback_version("6.17.0", "mainline", "2025-09-28") >>

\* The loop body of fetch_from_kernel_org: one release of releases.json
\* made a KernelVersion.
kernel_version_of(release) ==
    [version  |-> release.version,
     semver   |-> ok(Version_parse(release.version)),
     channel  |-> IF release.moniker \in {"mainline", "stable", "longterm"}
                  THEN release.moniker ELSE "other",
     released |-> release.released,
     eol      |-> release.iseol]

\* fetch_from_kernel_org: the request or the parse of its answer fails, or
\* every release of the answer is converted, in order.
fetch_from_kernel_org(answer) ==
    IF answer[1] # "Ok" THEN Err(answer[1])
    ELSE OkOf([i \in 1..Len(answer[2]) |-> kernel_version_of(answer[2][i])])

\* fetch_versions_internal that hands the failure of the request on.
fetch_versions_internal_failing(answer) == fetch_from_kernel_org(answer)

fetch_versions_internal(answer) ==
    IF is_ok(fetch_from_kernel_org(answer)) THEN fetch_from_kernel_org(answer)
    ELSE OkOf(get_fallback_versions)

\* serde_json::to_string_pretty of a VersionCache: semver is #[serde(skip)].
serde_to_string(cache) ==
    [versions  |-> [i \in 1..Len(cache.versions) |->
                       [version  |-> cache.versions[i].version,
                        channel  |-> cache.versions[i].channel,
                        released |-> cache.versions[i].released,
                        eol      |-> cache.versions[i].eol]],
     cached_at |-> cache.cached_at]

\* serde_json::from_str of the content of the file: a skipped field takes
\* its default, None.
serde_from_str(content) ==
    [versions  |-> [i \in 1..Len(content.versions) |->
                       [version  |-> content.versions[i].version,
                        semver   |-> None,
                        channel  |-> content.versions[i].channel,
                        released |-> content.versions[i].released,
                        eol      |-> content.versions[i].eol]],
     cached_at |-> content.cached_at]

\* is_cache_valid with a window one unit longer.
is_cache_valid_inclusive(cache, now) ==
    now >= cache.cached_at /\ now - cache.cached_at <= CACHE_TTL

\* is_cache_valid: elapsed() is an error when cached_at is later than now.
is_cache_valid(cache, now) ==
    now >= cache.cached_at /\ now - cache.cached_at < CACHE_TTL

\* read_cache.  dir is "ok", "readonly" (the directory is there, nothing
\* can be written in it) or "absent" (it cannot be made: get_cache_dir
\* fails); file is <<"missing">>, <<"unreadable">>, <<"unparsable">> or
\* <<"json", content>>.
read_cache(dir, file, now) ==
    IF dir = "absent" THEN Err("Failed to create cache directory")
    ELSE IF file[1] = "missing" THEN OkOf(None)
    ELSE IF file[1] = "unreadable" THEN Err("Failed to read cache file")
    ELSE IF file[1] = "unparsable" THEN Err("Failed to parse cache file")
    ELSE LET cache == serde_from_str(file[2])
         IN  IF is_cache_valid(cache, now) THEN OkOf(Some(cache)) ELSE OkOf(None)

\* write_cache: the result and the file afterwards.
write_cache(versions, dir, file, now) ==
    IF dir # "ok"
    THEN [result |-> Err("Failed to write cache file"), file |-> file]
    ELSE [result |-> Ok,
          file   |-> <<"json", serde_to_string([versions |-> versions, cached_at |-> now])>>]

\* list_available_versions that reads the cache whatever force_refresh is.
list_available_versions_always_cached(force_refresh, now, answer, dir, file) ==
    LET cached  == read_cache(dir, file, now)
        hit     == is_ok(cached) /\ is_some(cached[2])
        fetched == fetch_versions_internal(answer)
        written == write_cache(fetched[2], dir, file, now)
    IN  IF hit
        THEN [ret |-> OkOf(unwrap(cached[2]).versions), read |-> TRUE,
              fetch |-> None, write |-> None, file |-> file]
        ELSE [ret |-> OkOf(fetched[2]), read |-> TRUE,
              fetch |-> Some(is_ok(fetch_from_kernel_org(answer))),
              write |-> Some(written.result), file |-> written.file]

\* list_available_versions that keeps the built-in list out of the cache.
list_available_versions_fallback_uncached(force_refresh, now, answer, dir, file) ==
    LET cached  == read_cache(dir, file, now)
        hit     == ~force_refresh /\ is_ok(cached) /\ is_some(cached[2])
        fetched == fetch_versions_internal(answer)
        failed  == is_err(fetch_from_kernel_org(answer))
        written == write_cache(fetched[2], dir, file, now)
    IN  IF hit
        THEN [ret |-> OkOf(unwrap(cached[2]).versions), read |-> TRUE,
              fetch |-> None, write |-> None, file |-> file]
        ELSE [ret |-> OkOf(fetched[2]), read |-> ~force_refresh,
              fetch |-> Some(~failed),
              write |-> IF failed THEN None ELSE Some(written.result),
              file |-> IF failed THEN file ELSE written.file]

\* list_available_versions: what it returns, whether it read the cache,
\* whether it asked kernel.org (and got an answer), whether it wrote the
\* cache (and with what result), and the file afterwards.
list_available_versions(force_refresh, now, answer, dir, file) ==
    LET cached  == read_cache(dir, file, now)
        hit     == ~force_refresh /\ is_ok(cached) /\ is_some(cached[2])
        fetched == fetch_versions_internal(answer)
        written == write_cache(fetched[2], dir, file, now)
    IN  IF hit
        THEN [ret |-> OkOf(unwrap(cached[2]).versions), read |-> TRUE,
              fetch |-> None, write |-> None, file |-> file]
        ELSE IF is_err(fetched)
        THEN [ret |-> fetched, read |-> ~force_refresh,
              fetch |-> Some(FALSE), write |-> None, file |-> file]
        ELSE [ret |-> OkOf(fetched[2]), read |-> ~force_refresh,
              fetch |-> Some(is_ok(fetch_from_kernel_org(answer))),
              write |-> Some(written.result), file |-> written.file]

\* What a request to kernel.org gives: no answer, an answer that is not
\* the JSON expected, or releases.json.
KernelOrgAnswers ==
    { <<"Failed to fetch from kernel.org">>,
      <<"Failed to parse kernel.org response">>,
      <<"Ok", << [version |-> CatalogLit["6.18-rc4"], moniker |-> "mainline",
                  released |-> Some("2025-11-02"), iseol |-> FALSE],
                 [version |-> CatalogLit["6.17.7"], moniker |-> "stable",
                  released |-> Some("2025-11-02"), iseol |-> FALSE],
                 [version |-> CatalogLit["next-20251103"], moniker |-> "linux-next",
                  released |-> None, iseol |-> FALSE] >> >>,
      <<"Ok", << [version |-> CatalogLit["6.6.116"], moniker |-> "longterm",
                  released |-> Some("2025-11-02"), iseol |-> TRUE] >> >> }

CacheDirs == {"ok", "readonly", "absent"}

\* What can happen to versions.json behind the back of the program.
DamagedFiles == {<<"missing">>, <<"unreadable">>, <<"unparsable">>}

InitCatalog ==
    /\ ConfigIdle /\ VersionIdle /\ PatchIdle /\ BloatIdle /\ PlanIdle
    /\ ToolchainIdle
    /\ ReportIdle
    /\ clock = 0
    /\ kernel_org \in KernelOrgAnswers
    /\ cache_dir = "ok"
    /\ cache_file = <<"missing">>
    /\ catalog_call = IdleCall
    /\ cache_writer = None

\* list_available_versions(force_refresh).await
ListAvailableVersions(force_refresh) ==
    LET r == list_available_versions(force_refresh, clock, kernel_org, cache_dir, cache_file)
    IN  /\ catalog_call = IdleCall
        /\ catalog_call' = [fn |-> "list_available_versions",
                            force_refresh |-> force_refresh,
                            now |-> clock, dir |-> cache_dir,
                            file |-> cache_file, writer |-> cache_writer,
                            ret |-> r.ret, read |-> r.read,
                            fetch |-> r.fetch, write |-> r.write]
        /\ cache_file' = r.file
        /\ cache_writer' = IF r.write = Some(Ok)
                           THEN Some([ret |-> r.ret, fetch |-> unwrap(r.fetch)])
                           ELSE cache_writer
        /\ UNCHANGED <<config_vars, version_vars, patch_vars, bloat_vars, plan_vars, report_vars,
                       toolchain_vars, clock, kernel_org, cache_dir>>

\* 12 hours pass.
Tick ==
    /\ catalog_call = IdleCall
    /\ clock < MaxClock
    /\ clock' = clock + 1
    /\ UNCHANGED <<config_vars, version_vars, patch_vars, bloat_vars, plan_vars, report_vars,
                   toolchain_vars, kernel_org, cache_dir, cache_file, catalog_call,
                   cache_writer>>

\* The system clock is set back by 12 hours.
SetBack ==
    /\ catalog_call = IdleCall
    /\ clock > 0
    /\ clock' = clock - 1
    /\ UNCHANGED <<config_vars, version_vars, patch_vars, bloat_vars, plan_vars, report_vars,
                   toolchain_vars, kernel_org, cache_dir, cache_file, catalog_call,
                   cache_writer>>

\* The network or kernel.org changes.
Answer(a) ==
    /\ catalog_call = IdleCall
    /\ kernel_org' = a
    /\ UNCHANGED <<config_vars, version_vars, patch_vars, bloat_vars, plan_vars, report_vars,
                   toolchain_vars, clock, cache_dir, cache_file, catalog_call,
                   cache_writer>>

\* The cache directory changes.
Directory(d) ==
    /\ catalog_call = IdleCall
    /\ cache_dir' = d
    /\ UNCHANGED <<config_vars, version_vars, patch_vars, bloat_vars, plan_vars, report_vars,
                   toolchain_vars, clock, kernel_org, cache_file, catalog_call,
                   cache_writer>>

\* versions.json is removed, made unreadable or overwritten with something
\* that is not a VersionCache.
Damage(f) ==
    /\ catalog_call = IdleCall
    /\ cache_file' = f
    /\ cache_writer' = None
    /\ UNCHANGED <<config_vars, version_vars, patch_vars, bloat_vars, plan_vars, report_vars,
                   toolchain_vars, clock, kernel_org, cache_dir, catalog_call>>

\* The caller is done with the list it was given.
DropVersions ==
    /\ catalog_call # IdleCall
    /\ catalog_call' = IdleCall
    /\ UNCHANGED <<config_vars, version_vars, patch_vars, bloat_vars, plan_vars, report_vars,
                   toolchain_vars, clock, kernel_org, cache_dir, cache_file,
                   cache_writer>>

NextCatalog ==
    \/ \E force_refresh \in BOOLEAN : ListAvailableVersions(force_refresh)
    \/ DropVersions
    \/ Tick
    \/ SetBack
    \/ \E a \in KernelOrgAnswers : Answer(a)
    \/ \E d \in CacheDirs : Directory(d)
    \/ \E f \in DamagedFiles : Damage(f)

SpecCatalog == InitCatalog /\ [][NextCatalog]_vars

-----------------------------------------------------------------------------
(* Claims on the cached catalog. *)

\* The last call was list_available_versions(false) and found in the cache
\* file the entry an earlier call wrote, less than 24 hours old and not
\* dated in the future, in a directory it could get at.
CacheHit ==
    /\ catalog_call.fn = "list_available_versions"
    /\ ~catalog_call.force_refresh
    /\ catalog_call.writer # None
    /\ catalog_call.dir # "absent"
    /\ catalog_call.file[1] = "json"
    /\ catalog_call.file[2].cached_at <= catalog_call.now
    /\ catalog_call.now - catalog_call.file[2].cached_at < CACHE_TTL

\* The last call was list_available_versions(false) and the cache file held
\* an entry 24 hours old or older, or dated in the future.
CacheStale ==
    /\ catalog_call.fn = "list_available_versions"
    /\ ~catalog_call.force_refresh
    /\ catalog_call.file[1] = "json"
    /\ \/ catalog_call.file[2].cached_at > catalog_call.now
       \/ catalog_call.now - catalog_call.file[2].cached_at >= CACHE_TTL

\* The fields of a KernelVersion that are written to the cache.
Persisted(v) ==
    [version |-> v.version, channel |-> v.channel,
     released |-> v.released, eol |-> v.eol]

\* C21, as claimed: a call with force_refresh = false made less than 24
\* hours after the timestamp of the cache entry returns, without a fetch,
\* the same versions as the call that fetched and wrote the entry; a call
\* with force_refresh = true does not read the cache and fetches; an entry
\* 24 hours old or older, or dated in the future, is not used.
C21_CachedSameVersions ==
    /\ CacheHit =>
          /\ catalog_call.ret = unwrap(catalog_call.writer).ret
          /\ catalog_call.fetch = None
    /\ (catalog_call.fn = "list_available_versions" /\ catalog_call.force_refresh) =>
          /\ ~catalog_call.read
          /\ catalog_call.fetch # None
    /\ CacheStale => catalog_call.fetch # None

\* C21, as the code has it: the versions a cache hit returns are those the
\* writing call returned in version, channel, released and eol, in the
\* same order, and their semver is None whatever it was; the rest is as
\* claimed.
C21_CachedPersistedFields ==
    /\ CacheHit =>
          LET got   == catalog_call.ret[2]
              first == unwrap(catalog_call.writer).ret[2]
          IN  /\ is_ok(catalog_call.ret)
              /\ Len(got) = Len(first)
              /\ \A i \in 1..Len(got) :
                    /\ Persisted(got[i]) = Persisted(first[i])
                    /\ got[i].semver = None
              /\ catalog_call.fetch = None
    /\ (catalog_call.fn = "list_available_versions" /\ catalog_call.force_refresh) =>
          /\ ~catalog_call.read
          /\ catalog_call.fetch # None
    /\ CacheStale => catalog_call.fetch # None

\* 12 hours after a call got releases.json from kernel.org and wrote the
\* cache, a call with force_refresh = false returned from the cache, and
\* the version 6.17.7 it returned has lost the semver the first call gave.
C21_Witness ==
    /\ CacheHit
    /\ catalog_call.now = catalog_call.file[2].cached_at + 1
    /\ unwrap(catalog_call.writer).fetch
    /\ catalog_call.fetch = None
    /\ Len(catalog_call.ret[2]) = 3
    /\ Len(unwrap(catalog_call.writer).ret[2]) = 3
    /\ unwrap(catalog_call.writer).ret[2][2].version = CatalogLit["6.17.7"]
    /\ unwrap(catalog_call.writer).ret[2][2].semver # None
    /\ catalog_call.ret[2][2].version = CatalogLit["6.17.7"]
    /\ catalog_call.ret[2][2].semver = None

\* str::starts_with
starts_with(s, prefix) ==
    Len(s) >= Len(prefix) /\ SubSeq(s, 1, Len(prefix)) = prefix

Channels == {"stable", "mainline", "longterm", "other"}

\* C22: list_available_versions returns Ok whatever the network, the cache
\* directory and the cache file are.  When the request to kernel.org fails
\* it returns the built-in list, which is not empty and has a 6.6.x and a
\* 6.17.x.  A cache that is missing, unreadable, unparsable or in a
\* directory that cannot be made is a miss (the call fetches), a cache that
\* cannot be written leaves the result as it is, and every entry that comes
\* from the fetch or from the built-in list has one of the four channels.
C22_NeverFails ==
    catalog_call.fn = "list_available_versions" =>
        LET c == catalog_call
        IN  /\ is_ok(c.ret)
            /\ c.fetch = Some(FALSE) =>
                  /\ c.ret = OkOf(get_fallback_versions)
                  /\ Len(c.ret[2]) > 0
                  /\ \E i \in 1..Len(c.ret[2]) : starts_with(c.ret[2][i].version, CatalogLit["6.6"])
                  /\ \E i \in 1..Len(c.ret[2]) : starts_with(c.ret[2][i].version, CatalogLit["6.17"])
            /\ (c.file \in DamagedFiles \/ c.dir = "absent") => c.fetch # None
            /\ c.write # None => c.fetch # None
            /\ (c.fetch # None /\ c.dir # "ok") => c.write = Some(Err("Failed to write cache file"))
            /\ c.fetch # None =>
                  \A i \in 1..Len(c.ret[2]) : c.ret[2][i].channel \in Channels

\* kernel.org did not answer, the cache file could not be parsed and
\* nothing could be written: the call returned the built-in list.
C22_Witness ==
    /\ catalog_call.fn = "list_available_versions"
    /\ ~catalog_call.force_refresh
    /\ catalog_call.file = <<"unparsable">>
    /\ catalog_call.dir = "readonly"
    /\ catalog_call.fetch = Some(FALSE)
    /\ catalog_call.write = Some(Err("Failed to write cache file"))
    /\ catalog_call.ret = OkOf(get_fallback_versions)
    /\ cache_file = <<"unparsable">>

\* C30, as claimed: when the entry in the cache was written by a call whose
\* fetch failed, a call with force_refresh = false made less than 24 hours
\* after it returns the built-in fallback list and attempts no fetch,
\* whatever kernel.org would answer by then.
C30_FallbackFromCache ==
    (CacheHit /\ ~unwrap(catalog_call.writer).fetch) =>
        /\ catalog_call.ret = OkOf(get_fallback_versions)
        /\ catalog_call.fetch = None
        /\ catalog_call.write = None

\* C30, as the code has it: a call whose fetch failed writes the built-in
\* list to the cache like a fetched one, and a later call as above
\* attempts no fetch and writes nothing, and returns the entries of the
\* built-in list in their order, with the version, channel, released and
\* eol of each and with semver None.
C30_FallbackPersistedFields ==
    /\ (catalog_call.fn = "list_available_versions"
           /\ catalog_call.fetch = Some(FALSE) /\ catalog_call.dir = "ok") =>
          /\ catalog_call.write = Some(Ok)
          /\ cache_file = <<"json", serde_to_string([versions |-> get_fallback_versions,
                                                     cached_at |-> catalog_call.now])>>
    /\ (CacheHit /\ ~unwrap(catalog_call.writer).fetch) =>
          LET got == catalog_call.ret[2]
          IN  /\ is_ok(catalog_call.ret)
              /\ Len(got) = Len(get_fallback_versions)
              /\ \A i \in 1..Len(got) :
                    /\ Persisted(got[i]) = Persisted(get_fallback_versions[i])
                    /\ got[i].semver = None
              /\ catalog_call.fetch = None
              /\ catalog_call.write = None

\* The built-in list was cached by a call that got no answer; 12 hours
\* later kernel.org answers again, and a call with force_refresh = false
\* returned the cached list without asking it.
C30_Witness ==
    /\ CacheHit
    /\ ~unwrap(catalog_call.writer).fetch
    /\ catalog_call.now = catalog_call.file[2].cached_at + 1
    /\ kernel_org[1] = "Ok"
    /\ catalog_call.fetch = None
    /\ Len(catalog_call.ret[2]) = 12
    /\ get_fallback_versions[1].semver # None
    /\ catalog_call.ret[2][1].semver = None
=============================================================================
